---- MODULE Spec2Model ----
(***************************************************************************)
(* Model of the melody compilation engine of PassiveBuzzerMelodyPlayer:    *)
(* MelodyBuilder (src/unnamed/part_000, include/builder/MelodyBuilder.h)   *)
(* with the shared data types of src/unnamed/part_004.                     *)
(*                                                                         *)
(* The builder is modelled as a record b and every member function as an   *)
(* operator from the record (and the call's arguments) to the record after *)
(* the call, so that calls made from inside other calls (appendScore ->    *)
(* addNote -> pushStep_, compose -> anything) are part of one step.        *)
(***************************************************************************)
EXTENDS Integers, Sequences, FiniteSets, TLC

VARIABLES
    buffer_,    \* Step* buffer_ : the caller's array, indexed 0..capacity_-1
    bufferNull, \* Step* buffer_ : buffer_ == nullptr
    capacity_,  \* size_t capacity_
    length_,    \* size_t length_
    ctx_,       \* MelodyContext ctx_ : [bpm, gapMs]
    ok_,        \* bool ok_
    oob,        \* history: some store went outside the caller's array
    attempts,   \* history: pushStep_ calls since construction / clearMelody
    pushLog,    \* history: the first capacity_ steps handed to pushStep_
    lastOp,     \* history: name of the public call that produced this state
    probe,      \* arguments and results of the pure functions (SpecPure)
    melody,     \* Melody melody (main.cpp) : [steps, count]
    state_,     \* fsm::State state_
    melody_,    \* const Melody* melody_ : "nullptr" or "&melody"
    melodyStepIdx_, \* size_t melodyStepIdx_
    looping_,   \* bool looping_
    stepDelay_, \* Delay stepDelay_ : [delayTime, previousTime, disarm]
    hwBackend_, \* IBuzzerBackend& hwBackend_ : frequency commanded, 0 = stopped
    calls,      \* history: what the last player call commanded and stored
    hwLog,      \* history: the commands given to the signal generator since
                \* the application last called play() or stop(), those of
                \* that call included
    now,        \* micros()
    ticks       \* history: number of times the clock has been advanced

bvars == <<buffer_, bufferNull, capacity_, length_, ctx_, ok_, oob, attempts,
           pushLog>>
pvars == <<state_, melody_, melodyStepIdx_, looping_, stepDelay_, hwBackend_,
           calls, hwLog>>
mvars == <<melody, pvars, now, ticks>>
vars == <<buffer_, bufferNull, capacity_, length_, ctx_, ok_, oob, attempts,
          pushLog, lastOp, probe, melody, state_, melody_, melodyStepIdx_,
          looping_, stepDelay_, hwBackend_, calls, hwLog, now, ticks>>

----------------------------------------------------------------------------
(* Bounds of the model *)

\* largest buffer capacity a builder is constructed with
MaxCapacity == 2
\* longest score handed to appendScore
MaxScoreLen == 2
\* commands to the signal generator kept in hwLog
MaxLog == 8
\* the pure functions are applied to every bpm in 1..BpmDense (and samples)
BpmDense == 6
\* ... and to every gap in 0..GapDense (and samples)
GapDense == 12

(* Program constants *)
MIN_PLAY_MS == 10
DefaultBpm == 120
DefaultGapMs == 0
MaxBpm == 300
MaxGapMs == 1000

U8Max == 2^8 - 1
U16Max == 2^16 - 1

\* uint32_t subtraction.  Every operand of the builder's arithmetic is below
\* 2^31 (bpm * denom <= 65535 * 255, durations <= 240000), so sums, products
\* and quotients are exact; only a difference can leave the range, and a
\* difference below 0 stands for the wrapped value 2^32 + (a - b).
SubU32(a, b) == a - b

Min(a, b) == IF a < b THEN a ELSE b

----------------------------------------------------------------------------
(* Data types (src/unnamed/part_004) *)

Step(hz, ms) == [freqHz |-> hz, durationMs |-> ms]

MelodyContext == [bpm |-> DefaultBpm, gapMs |-> DefaultGapMs]

ScoreNote(hz, denom) == [hz |-> hz, denom |-> denom]

\* const score::ScoreNote* : nullptr, or the notes it points to
NullScore == [null |-> TRUE, notes |-> <<>>]
ScoreAt(notes) == [null |-> FALSE, notes |-> notes]

----------------------------------------------------------------------------
(* The builder as a value *)

Cur ==
    [buffer |-> buffer_, bufferNull |-> bufferNull,
     capacity |-> capacity_, length |-> length_,
     ctx |-> ctx_, ok |-> ok_, oob |-> oob, attempts |-> attempts,
     pushLog |-> pushLog]

Is(b) ==
    /\ buffer_ = b.buffer
    /\ bufferNull = b.bufferNull
    /\ capacity_ = b.capacity
    /\ length_ = b.length
    /\ ctx_ = b.ctx
    /\ ok_ = b.ok
    /\ oob = b.oob
    /\ attempts = b.attempts
    /\ pushLog = b.pushLog

Becomes(b) ==
    /\ buffer_' = b.buffer
    /\ bufferNull' = b.bufferNull
    /\ capacity_' = b.capacity
    /\ length_' = b.length
    /\ ctx_' = b.ctx
    /\ ok_' = b.ok
    /\ oob' = b.oob
    /\ attempts' = b.attempts
    /\ pushLog' = b.pushLog

\* the caller's storage: a zero-initialised static array of n steps
\* (main.cpp:36), or no storage at all
StepArray(n) == [null |-> FALSE, steps |-> [i \in 0..(n - 1) |-> Step(0, 0)]]
NullBuffer == [null |-> TRUE, steps |-> <<>>]

\* MelodyBuilder::MelodyBuilder(Step* buffer, size_t capacity)
MelodyBuilder(buffer, capacity) ==
    [buffer |-> buffer.steps,
     bufferNull |-> buffer.null,
     capacity |-> capacity,
     length |-> 0,
     ctx |-> MelodyContext,
     ok |-> ((~buffer.null) /\ capacity > 0),
     oob |-> FALSE,
     attempts |-> 0,
     pushLog |-> <<>>]

----------------------------------------------------------------------------
(* Private helpers of MelodyBuilder *)

\* buffer_[length_++] = Step{hz, durationMs}
StoreStep(b, hz, durationMs) ==
    [b EXCEPT
        !.buffer = IF b.length \in DOMAIN @
                   THEN [@ EXCEPT ![b.length] = Step(hz, durationMs)]
                   ELSE @,
        !.oob = @ \/ b.bufferNull \/ (b.length >= b.capacity),
        !.length = @ + 1]

\* history of the calls of pushStep_
Logged(b, hz, durationMs) ==
    [b EXCEPT
        !.attempts = Min(@ + 1, b.capacity + 1),
        !.pushLog = IF Len(@) < b.capacity
                    THEN Append(@, Step(hz, durationMs))
                    ELSE @]

\* a pushStep_ whose bound check is off by one
PushStepOffByOne(b, hz, durationMs) ==
    IF b.length <= b.capacity
    THEN StoreStep(Logged(b, hz, durationMs), hz, durationMs)
    ELSE [Logged(b, hz, durationMs) EXCEPT !.ok = FALSE]

\* a pushStep_ that recycles the last slot when the buffer is full
PushStepOverwriteLast(b, hz, durationMs) ==
    IF b.length < b.capacity
    THEN StoreStep(Logged(b, hz, durationMs), hz, durationMs)
    ELSE [Logged(b, hz, durationMs) EXCEPT
             !.ok = FALSE,
             !.buffer = IF b.capacity > 0
                        THEN [@ EXCEPT ![b.capacity - 1] = Step(hz, durationMs)]
                        ELSE @]

\* bool MelodyBuilder::pushStep_(uint16_t hz, uint32_t durationMs)
pushStep_(b, hz, durationMs) ==
    IF b.length < b.capacity
    THEN StoreStep(Logged(b, hz, durationMs), hz, durationMs)
    ELSE [Logged(b, hz, durationMs) EXCEPT !.ok = FALSE]

\* a conversion without the 1 ms floor
DenomToMsNoFloor(b, denom, bpm) ==
    IF denom = 0 \/ bpm = 0
    THEN [b |-> [b EXCEPT !.ok = FALSE], ms |-> 0]
    ELSE [b |-> b, ms |-> (60000 * 4) \div (bpm * denom)]

\* a conversion that takes the denominator for a number of beats
DenomToMsPerBeat(b, denom, bpm) ==
    IF denom = 0 \/ bpm = 0
    THEN [b |-> [b EXCEPT !.ok = FALSE], ms |-> 0]
    ELSE LET noteMs == (60000 \div bpm) * denom
         IN  [b |-> b, ms |-> IF noteMs = 0 THEN 1 ELSE noteMs]

\* uint32_t MelodyBuilder::denomToMs_(uint8_t denom, uint16_t bpm)
\* the result and the builder after the call (ok_ is cleared on bad input)
denomToMs_(b, denom, bpm) ==
    IF denom = 0 \/ bpm = 0
    THEN [b |-> [b EXCEPT !.ok = FALSE], ms |-> 0]
    ELSE LET numerator == 60000 * 4
             divisor == bpm * denom
             noteMs == numerator \div divisor
         IN  [b |-> b, ms |-> IF noteMs = 0 THEN 1 ELSE noteMs]

\* a gap split that clamps the rest to the whole note, not to playMs - MIN_PLAY_MS
GapSplitClampToNote(hz, durationMs, gapMs) ==
    IF hz > 0 /\ gapMs > 0 /\ durationMs > MIN_PLAY_MS
    THEN LET maxGap == durationMs
             restMs == IF gapMs > maxGap THEN maxGap ELSE gapMs
         IN  [playMs |-> SubU32(durationMs, restMs), restMs |-> restMs]
    ELSE [playMs |-> durationMs, restMs |-> 0]

\* a gap split that only keeps the tone non-empty (1 ms instead of 10 ms)
GapSplitMinOne(hz, durationMs, gapMs) ==
    IF hz > 0 /\ gapMs > 0 /\ durationMs > 1
    THEN LET maxGap == SubU32(durationMs, 1)
             restMs == IF gapMs > maxGap THEN maxGap ELSE gapMs
         IN  [playMs |-> SubU32(durationMs, restMs), restMs |-> restMs]
    ELSE [playMs |-> durationMs, restMs |-> 0]

\* a gap split that loses one millisecond of the note
GapSplitLossy(hz, durationMs, gapMs) ==
    IF hz > 0 /\ gapMs > 0 /\ durationMs > MIN_PLAY_MS
    THEN LET maxGap == SubU32(durationMs, MIN_PLAY_MS)
             restMs == IF gapMs >= maxGap THEN maxGap - 1 ELSE gapMs
         IN  [playMs |-> SubU32(durationMs, restMs + 1), restMs |-> restMs]
    ELSE [playMs |-> durationMs, restMs |-> 0]

\* addNote, part_000:167-180: playMs and restMs of a tone
GapSplit(hz, durationMs, gapMs) ==
    IF hz > 0 /\ gapMs > 0 /\ durationMs > MIN_PLAY_MS
    THEN LET maxGap == SubU32(durationMs, MIN_PLAY_MS)
             restMs == IF gapMs > maxGap THEN maxGap ELSE gapMs
         IN  [playMs |-> SubU32(durationMs, restMs), restMs |-> restMs]
    ELSE [playMs |-> durationMs, restMs |-> 0]

----------------------------------------------------------------------------
(* Public member functions of MelodyBuilder *)

\* a clearMelody that re-validates the capacity only
ClearMelodyCapacityOnly(b, toDefault) ==
    [b EXCEPT
        !.length = 0,
        !.ctx = IF toDefault THEN MelodyContext ELSE @,
        !.ok = (b.capacity > 0),
        !.attempts = 0,
        !.pushLog = <<>>]

\* MelodyBuilder& MelodyBuilder::clearMelody(bool toDefault)
clearMelody(b, toDefault) ==
    [b EXCEPT
        !.length = 0,
        !.ctx = IF toDefault THEN MelodyContext ELSE @,
        !.ok = ((~b.bufferNull) /\ b.capacity > 0),
        !.attempts = 0,
        !.pushLog = <<>>]

\* a setTempo that stores the outcome of the range check in ok_
SetTempoAssignsOk(b, bpm) ==
    IF bpm <= 0 \/ bpm > MaxBpm
    THEN [b EXCEPT !.ok = FALSE]
    ELSE [b EXCEPT !.ctx.bpm = bpm, !.ok = TRUE]

\* a setTempo whose range check lets 0 through
SetTempoAcceptsZero(b, bpm) ==
    IF bpm < 0 \/ bpm > MaxBpm
    THEN [b EXCEPT !.ok = FALSE]
    ELSE [b EXCEPT !.ctx.bpm = bpm]

\* MelodyBuilder& MelodyBuilder::setTempo(int bpm)
setTempo(b, bpm) ==
    IF bpm <= 0 \/ bpm > MaxBpm
    THEN [b EXCEPT !.ok = FALSE]
    ELSE [b EXCEPT !.ctx.bpm = bpm]

\* MelodyBuilder& MelodyBuilder::gap(uint16_t gapMs)
gap(b, gapMs) ==
    IF gapMs > MaxGapMs
    THEN [b EXCEPT !.ok = FALSE]
    ELSE [b EXCEPT !.ctx.gapMs = gapMs]

\* MelodyBuilder& MelodyBuilder::addNote(uint16_t hz, uint8_t denom)
addNote(b, hz, denom) ==
    LET conv == denomToMs_(b, denom, b.ctx.bpm)
        durationMs == conv.ms
    IN  IF durationMs = 0
        THEN [conv.b EXCEPT !.ok = FALSE]
        ELSE IF hz = 0
        THEN pushStep_(conv.b, hz, durationMs)
        ELSE LET split == GapSplit(hz, durationMs, conv.b.ctx.gapMs)
                 played == pushStep_(conv.b, hz, split.playMs)
             IN  IF split.restMs > 0
                 THEN pushStep_(played, 0, split.restMs)
                 ELSE played

\* an addRest that leaves the articulation gap out of the rest
AddRestLessGap(b, denom) ==
    LET conv == denomToMs_(b, denom, b.ctx.bpm)
        split == GapSplit(1, conv.ms, conv.b.ctx.gapMs)
    IN  pushStep_(conv.b, 0, split.playMs)

\* MelodyBuilder& MelodyBuilder::addRest(uint8_t denom)
addRest(b, denom) ==
    LET conv == denomToMs_(b, denom, b.ctx.bpm)
    IN  pushStep_(conv.b, 0, conv.ms)

\* an addToneMs that articulates the tone like addNote does
AddToneMsWithGap(b, hz, durationMs) ==
    LET split == GapSplit(hz, durationMs, b.ctx.gapMs)
        played == pushStep_(b, hz, split.playMs)
    IN  IF split.restMs > 0
        THEN pushStep_(played, 0, split.restMs)
        ELSE played

\* MelodyBuilder& MelodyBuilder::addToneMs(uint16_t hz, uint32_t durationMs)
addToneMs(b, hz, durationMs) == pushStep_(b, hz, durationMs)

\* MelodyBuilder& MelodyBuilder::addRestMs(uint32_t durationMs)
addRestMs(b, durationMs) == pushStep_(b, 0, durationMs)

\* avr_algorithms::for_each_indexed(score, count, lambda) of appendScore:
\* notes i..count of the score, each added while ok_
RECURSIVE AppendFrom(_, _, _, _)
AppendFrom(b, score, count, i) ==
    IF i > count
    THEN b
    ELSE AppendFrom(IF b.ok
                    THEN addNote(b, score.notes[i].hz, score.notes[i].denom)
                    ELSE b,
                    score, count, i + 1)

\* MelodyBuilder& MelodyBuilder::appendScore(const score::ScoreNote*, size_t)
appendScore(b, score, count) ==
    IF score.null /\ count > 0
    THEN [b EXCEPT !.ok = FALSE]
    ELSE AppendFrom(b, score, count, 1)

\* MelodyBuilder& MelodyBuilder::appendScore(score::ScoreView view)
\* The body is the call appendScore(view.data, view.count) and no return
\* statement: flowing off the end of a function that returns a reference is
\* undefined.  The outcomes: the function returns after the call, or control
\* runs on into the function defined next, addNote, with whatever its
\* argument registers hold.
appendScoreView(b, view) ==
    LET done == appendScore(b, view, Len(view.notes))
    IN  {done} \cup {addNote(done, hz, denom) : hz \in {0, 784}, denom \in {0, 4}}

\* avr_algorithms::for_each_indexed(buffer_, length_, lambda) of the reader
\* overload: indices i..n-1, n being length_ as it was when the call began;
\* each index is read and its note added while ok_
RECURSIVE ReadFrom(_, _, _, _)
ReadFrom(b, reader, n, i) ==
    IF i >= n
    THEN b
    ELSE ReadFrom(IF b.ok
                  THEN addNote(b, reader[i + 1].hz, reader[i + 1].denom)
                  ELSE b,
                  reader, n, i + 1)

\* template<typename Reader>
\* MelodyBuilder& appendScore(Reader&& reader, size_t count)
\* reader[i + 1] is reader(i); count is not used by the body
appendScoreReader(b, reader, count) == ReadFrom(b, reader, b.length, 0)

\* one call made on the builder by the function handed to compose
Call(b, c) ==
    CASE c.op = "setTempo" -> setTempo(b, c.a)
      [] c.op = "gap" -> gap(b, c.a)
      [] c.op = "addNote" -> addNote(b, c.a, c.d)
      [] c.op = "addRest" -> addRest(b, c.d)
      [] c.op = "addToneMs" -> addToneMs(b, c.a, c.d)
      [] c.op = "addRestMs" -> addRestMs(b, c.d)

RECURSIVE RunCalls(_, _, _)
RunCalls(b, func, i) ==
    IF i > Len(func) THEN b ELSE RunCalls(Call(b, func[i]), func, i + 1)

\* template<typename Func> MelodyBuilder& compose(Func&& func): func(*this)
compose(b, func) == RunCalls(b, func, 1)

\* a build that describes the whole array instead of the compiled steps
BuildWholeArray(b) ==
    [steps |-> IF b.bufferNull THEN "nullptr" ELSE "buffer_",
     count |-> b.capacity]

\* Melody MelodyBuilder::build() const
\* The view holds the buffer pointer, not a copy of the steps: steps names
\* the builder's array (or is null as buffer_ is).
build(b) ==
    [steps |-> IF b.bufferNull THEN "nullptr" ELSE "buffer_",
     count |-> b.length]

----------------------------------------------------------------------------
(* unsigned long (32 bits) as two 16-bit halves, for the microsecond       *)
(* counter and the timer arithmetic on it                                  *)

Limb == 2^16

\* the unsigned long of value n, 0 <= n < 2^31
UL(n) == [hi |-> n \div Limb, lo |-> n % Limb]

\* a + b, a - b, a * k modulo 2^32
AddUL(a, b) ==
    LET lo == a.lo + b.lo
    IN  [hi |-> (a.hi + b.hi + (lo \div Limb)) % Limb, lo |-> lo % Limb]

SubUL(a, b) ==
    LET lo == a.lo - b.lo
        borrow == IF lo < 0 THEN 1 ELSE 0
    IN  [hi |-> (a.hi - b.hi - borrow + 2 * Limb) % Limb,
         lo |-> (lo + Limb) % Limb]

MulUL(a, k) ==
    LET lo == a.lo * k
    IN  [hi |-> (a.hi * k + (lo \div Limb)) % Limb, lo |-> lo % Limb]

\* a >= b
GeUL(a, b) == a.hi > b.hi \/ (a.hi = b.hi /\ a.lo >= b.lo)

----------------------------------------------------------------------------
(* Delay (src/unnamed/part_002): a member function is an operator from the *)
(* timer d and the value t that micros() returns to the timer afterwards   *)

\* Delay::Delay(unsigned long delayTime)
Delay(delayTime) ==
    [delayTime |-> delayTime, previousTime |-> UL(0), disarm |-> FALSE]

\* void Delay::init()
DelayInit(d, t) ==
    [d EXCEPT !.disarm = FALSE, !.previousTime = t]

\* void Delay::init(unsigned long delayTime)
DelayInitTo(d, delayTime, t) ==
    [d EXCEPT !.disarm = FALSE, !.delayTime = delayTime, !.previousTime = t]

\* a restartTimer that also arms the timer
RestartArms(d, t) == [d EXCEPT !.previousTime = t, !.disarm = FALSE]

\* void Delay::restartTimer()
restartTimer(d, t) == [d EXCEPT !.previousTime = t]

\* an isDelayTimeElapsed that compares the counter with the deadline
\* reference + interval instead of the difference with the interval
ElapsedByDeadline(d, t, lag) ==
    IF (~d.disarm) /\ GeUL(t, AddUL(d.previousTime, d.delayTime))
    THEN [d |-> restartTimer(d, AddUL(t, lag)), elapsed |-> TRUE]
    ELSE [d |-> d, elapsed |-> FALSE]

\* a isDelayTimeElapsed that keeps the old reference when it reports true
ElapsedKeepsReference(d, t, lag) ==
    IF (~d.disarm) /\ GeUL(SubUL(t, d.previousTime), d.delayTime)
    THEN [d |-> d, elapsed |-> TRUE]
    ELSE [d |-> d, elapsed |-> FALSE]

\* an isDelayTimeElapsed that re-arms from the deadline it has just passed
\* rather than from the current time
ElapsedFromDeadline(d, t, lag) ==
    IF (~d.disarm) /\ GeUL(SubUL(t, d.previousTime), d.delayTime)
    THEN [d |-> restartTimer(d, AddUL(d.previousTime, d.delayTime)), elapsed |-> TRUE]
    ELSE [d |-> d, elapsed |-> FALSE]

\* bool Delay::isDelayTimeElapsed()
\* micros() is read at t for the comparison and again, lag later, by
\* restartTimer
isDelayTimeElapsed(d, t, lag) ==
    IF (~d.disarm) /\ GeUL(SubUL(t, d.previousTime), d.delayTime)
    THEN [d |-> restartTimer(d, AddUL(t, lag)), elapsed |-> TRUE]
    ELSE [d |-> d, elapsed |-> FALSE]

\* void Delay::stopDelay()
stopDelay(d) == [d EXCEPT !.disarm = TRUE]

\* an updateDelayTime that also clears the reference timestamp
UpdateRestarts(d, newDelayTime) ==
    [d EXCEPT !.delayTime = newDelayTime, !.previousTime = UL(0)]

\* void Delay::updateDelayTime(unsigned long newDelayTime)
updateDelayTime(d, newDelayTime) == [d EXCEPT !.delayTime = newDelayTime]

----------------------------------------------------------------------------
(* BuzzerPlayer (src/unnamed/part_001) as a value p, with what it refers   *)
(* to: the Melody object handed to play and the step array behind it       *)

Player ==
    [state |-> state_, melody |-> melody_, idx |-> melodyStepIdx_,
     looping |-> looping_, stepDelay |-> stepDelay_, hw |-> hwBackend_,
     calls |-> calls, hwLog |-> hwLog]

PlayerBecomes(p) ==
    /\ state_' = p.state
    /\ melody_' = p.melody
    /\ melodyStepIdx_' = p.idx
    /\ looping_' = p.looping
    /\ stepDelay_' = p.stepDelay
    /\ hwBackend_' = p.hw
    /\ calls' = p.calls
    /\ hwLog' = p.hwLog

\* a call begins: nothing has been commanded by it yet
Entered(p) == [p EXCEPT !.calls = <<>>]

\* the application calls play() or stop()
Called(p) == [p EXCEPT !.calls = <<>>, !.hwLog = <<>>]

\* a command as hwLog keeps it: with the index and the FSM state it was
\* given in, and the member function fn that gave it
Command(p, op, hz, fn) ==
    [op |-> op, hz |-> hz, idx |-> p.idx, state |-> p.state, fn |-> fn]

\* hwLog keeps the first MaxLog commands
Kept(log, c) == IF Len(log) < MaxLog THEN Append(log, c) ELSE log

\* hwBackend_.start(frequencyHz) / hwBackend_.stop()
HwStart(p, frequencyHz) ==
    [p EXCEPT !.hw = frequencyHz,
              !.calls = Append(@, [op |-> "start", hz |-> frequencyHz]),
              !.hwLog = Kept(@, Command(p, "start", frequencyHz, "update"))]
HwStopBy(p, fn) ==
    [p EXCEPT !.hw = 0,
              !.calls = Append(@, [op |-> "stop", hz |-> 0]),
              !.hwLog = Kept(@, Command(p, "stop", 0, fn))]
HwStop(p) == HwStopBy(p, "update")

\* BuzzerPlayer::BuzzerPlayer(IBuzzerBackend& hwBackend), constructed at
\* time t: stepDelay_(Delay(0)), then stepDelay_.init()
BuzzerPlayer(t) ==
    [state |-> "IDLE", melody |-> "nullptr", idx |-> 0, looping |-> FALSE,
     stepDelay |-> DelayInit(Delay(UL(0)), t), hw |-> 0, calls |-> <<>>,
     hwLog |-> <<>>]

PlayerIs(p) ==
    /\ state_ = p.state
    /\ melody_ = p.melody
    /\ melodyStepIdx_ = p.idx
    /\ looping_ = p.looping
    /\ stepDelay_ = p.stepDelay
    /\ hwBackend_ = p.hw
    /\ calls = p.calls
    /\ hwLog = p.hwLog

\* the globals of main.cpp besides the builder, as constructed before
\* setup(): Melody melody = {}, BuzzerPlayer player(hwBackend)
MainInit ==
    /\ melody = [steps |-> "nullptr", count |-> 0]
    /\ now = UL(0)
    /\ ticks = 0
    /\ PlayerIs(BuzzerPlayer(UL(0)))

\* a stop that leaves the step timer armed
StopLeavesTimerArmed(p) ==
    LET silenced == HwStopBy(p, "stop")
    IN  [silenced EXCEPT
            !.melody = "nullptr",
            !.looping = FALSE,
            !.idx = 0,
            !.state = "IDLE"]

\* a stop that keeps the melody reference
StopKeepsMelody(p) ==
    LET silenced == HwStopBy(p, "stop")
    IN  [silenced EXCEPT
            !.looping = FALSE,
            !.idx = 0,
            !.state = "IDLE",
            !.stepDelay = stopDelay(@),
            !.calls = Append(@, [op |-> "stopDelay", hz |-> 0])]

\* void BuzzerPlayer::stop()
stop(p) ==
    LET silenced == HwStopBy(p, "stop")
    IN  [silenced EXCEPT
            !.melody = "nullptr",
            !.looping = FALSE,
            !.idx = 0,
            !.state = "IDLE",
            !.stepDelay = stopDelay(@),
            !.calls = Append(@, [op |-> "stopDelay", hz |-> 0])]

\* bool BuzzerPlayer::isPlaying() const
isPlaying(p) == p.state # "IDLE"

\* a play that does not stop the playback under way
PlayWithoutStop(p, loop) ==
    [p EXCEPT
        !.melody = "&melody",
        !.looping = loop,
        !.idx = 0,
        !.state = "START_STEP",
        !.calls = Append(@, [op |-> "melody_ = &melody", hz |-> 0])]

\* a play that starts the first step itself
PlayStartsAtOnce(p, loop) ==
    LET stopped == IF isPlaying(p) THEN stop(p) ELSE p
    IN  HwStart([stopped EXCEPT
                    !.melody = "&melody",
                    !.looping = loop,
                    !.idx = 0,
                    !.state = "PLAYING_STEP",
                    !.calls = Append(@, [op |-> "melody_ = &melody", hz |-> 0])],
                440)

\* a play that never loops
PlayDropsLoop(p, loop) ==
    LET stopped == IF isPlaying(p) THEN stop(p) ELSE p
    IN  [stopped EXCEPT
            !.melody = "&melody",
            !.looping = FALSE,
            !.idx = 0,
            !.state = "START_STEP",
            !.calls = Append(@, [op |-> "melody_ = &melody", hz |-> 0])]

\* void BuzzerPlayer::play(const Melody &melody, bool loop), called with the
\* global Melody object of main.cpp:42
play(p, loop) ==
    LET stopped == IF isPlaying(p) THEN stop(p) ELSE p
    IN  [stopped EXCEPT
            !.melody = "&melody",
            !.looping = loop,
            !.idx = 0,
            !.state = "START_STEP",
            !.calls = Append(@, [op |-> "melody_ = &melody", hz |-> 0])]

\* what a read through a null or out-of-array pointer may yield
AnyStep == {Step(hz, ms) : hz \in {0, 440}, ms \in {0, 50}}

\* const Step& BuzzerPlayer::getCurrentStep() const
\* melody_->steps[melodyStepIdx_]; m is the Melody object, steps the array of
\* the builder.  The read is undefined through a null melody_, a null
\* m.steps, or past the end of the array.
getCurrentStep(p, m, steps) ==
    IF p.melody = "nullptr" \/ m.steps = "nullptr" \/ p.idx \notin DOMAIN steps
    THEN AnyStep
    ELSE {steps[p.idx]}

\* an advanceToNextStep that ends the playback at the last step, looping or not
AdvanceIgnoresLoop(p, m) ==
    LET idx == p.idx + 1
    IN  IF p.melody # "nullptr" /\ idx >= m.count
        THEN stop([p EXCEPT !.idx = idx])
        ELSE [p EXCEPT !.idx = idx, !.state = "START_STEP"]

\* an advanceToNextStep that silences the generator again after stop()
AdvanceStopsTwice(p, m) ==
    LET idx == p.idx + 1
    IN  IF p.melody # "nullptr" /\ idx >= m.count
        THEN IF p.looping
             THEN [p EXCEPT !.idx = 0, !.state = "START_STEP"]
             ELSE HwStop(stop([p EXCEPT !.idx = idx]))
        ELSE [p EXCEPT !.idx = idx, !.state = "START_STEP"]

\* an advanceToNextStep that steps over one step
AdvanceSkipsStep(p, m) ==
    LET idx == p.idx + 2
    IN  IF p.melody # "nullptr" /\ idx >= m.count
        THEN IF p.looping
             THEN [p EXCEPT !.idx = 0, !.state = "START_STEP"]
             ELSE stop([p EXCEPT !.idx = idx])
        ELSE [p EXCEPT !.idx = idx, !.state = "START_STEP"]

\* an advanceToNextStep that starts over at the end whatever the loop flag
AdvanceAlwaysLoops(p, m) ==
    LET idx == p.idx + 1
    IN  IF p.melody # "nullptr" /\ idx >= m.count
        THEN [p EXCEPT !.idx = 0, !.state = "START_STEP"]
        ELSE [p EXCEPT !.idx = idx, !.state = "START_STEP"]

\* void BuzzerPlayer::advanceToNextStep()
advanceToNextStep(p, m) ==
    LET idx == p.idx + 1
    IN  IF p.melody # "nullptr" /\ idx >= m.count
        THEN IF p.looping
             THEN [p EXCEPT !.idx = 0, !.state = "START_STEP"]
             ELSE stop([p EXCEPT !.idx = idx])
        ELSE [p EXCEPT !.idx = idx, !.state = "START_STEP"]

\* an update that goes on to advance in the call that finds the timer elapsed
UpdateFallsThrough(p, m, steps, t, lag) ==
    IF p.state = "START_STEP"
    THEN {[(IF mStep.freqHz > 0 THEN HwStart(p, mStep.freqHz) ELSE HwStop(p))
              EXCEPT !.stepDelay = DelayInitTo(@, MulUL(UL(mStep.durationMs), 1000), t),
                     !.state = "PLAYING_STEP"] :
             mStep \in getCurrentStep(p, m, steps)}
    ELSE IF p.state = "PLAYING_STEP"
    THEN LET timer == isDelayTimeElapsed(p.stepDelay, t, lag)
             polled == [p EXCEPT !.stepDelay = timer.d]
         IN  {IF timer.elapsed THEN advanceToNextStep(polled, m) ELSE polled}
    ELSE IF p.state = "ADVANCE_STEP"
    THEN {advanceToNextStep(p, m)}
    ELSE {p}

\* an update that hands every step to start(), rests included
UpdateStartsRests(p, m, steps, t, lag) ==
    IF p.state = "START_STEP"
    THEN {[HwStart(p, mStep.freqHz)
              EXCEPT !.stepDelay = DelayInitTo(@, MulUL(UL(mStep.durationMs), 1000), t),
                     !.state = "PLAYING_STEP"] :
             mStep \in getCurrentStep(p, m, steps)}
    ELSE IF p.state = "PLAYING_STEP"
    THEN LET timer == isDelayTimeElapsed(p.stepDelay, t, lag)
         IN  {[p EXCEPT !.stepDelay = timer.d,
                        !.state = IF timer.elapsed THEN "ADVANCE_STEP" ELSE @]}
    ELSE IF p.state = "ADVANCE_STEP"
    THEN {advanceToNextStep(p, m)}
    ELSE {p}

\* an update that leaves PLAYING_STEP whether or not the timer has elapsed
UpdateIgnoresTimer(p, m, steps, t, lag) ==
    IF p.state = "START_STEP"
    THEN {[(IF mStep.freqHz > 0 THEN HwStart(p, mStep.freqHz) ELSE HwStop(p))
              EXCEPT !.stepDelay = DelayInitTo(@, MulUL(UL(mStep.durationMs), 1000), t),
                     !.state = "PLAYING_STEP"] :
             mStep \in getCurrentStep(p, m, steps)}
    ELSE IF p.state = "PLAYING_STEP"
    THEN LET timer == isDelayTimeElapsed(p.stepDelay, t, lag)
         IN  {[p EXCEPT !.stepDelay = timer.d, !.state = "ADVANCE_STEP"]}
    ELSE IF p.state = "ADVANCE_STEP"
    THEN {advanceToNextStep(p, m)}
    ELSE {p}

\* an update that silences the generator on every poll in IDLE
UpdateSilencesIdle(p, m, steps, t, lag) ==
    IF p.state = "START_STEP"
    THEN {[(IF mStep.freqHz > 0 THEN HwStart(p, mStep.freqHz) ELSE HwStop(p))
              EXCEPT !.stepDelay = DelayInitTo(@, MulUL(UL(mStep.durationMs), 1000), t),
                     !.state = "PLAYING_STEP"] :
             mStep \in getCurrentStep(p, m, steps)}
    ELSE IF p.state = "PLAYING_STEP"
    THEN LET timer == isDelayTimeElapsed(p.stepDelay, t, lag)
         IN  {[p EXCEPT !.stepDelay = timer.d,
                        !.state = IF timer.elapsed THEN "ADVANCE_STEP" ELSE @]}
    ELSE IF p.state = "ADVANCE_STEP"
    THEN {advanceToNextStep(p, m)}
    ELSE {HwStop(p)}

\* void BuzzerPlayer::update(), with micros() = t on entry: the set of player
\* values the call may end with (one, unless the step read is undefined).
\* PLAYING_STEP: only the assignment of state_ depends on the timer; the
\* logging statement after it reads the current step and changes nothing.
update(p, m, steps, t, lag) ==
    IF p.state = "START_STEP"
    THEN {[(IF mStep.freqHz > 0 THEN HwStart(p, mStep.freqHz) ELSE HwStop(p))
              EXCEPT !.stepDelay = DelayInitTo(@, MulUL(UL(mStep.durationMs), 1000), t),
                     !.state = "PLAYING_STEP"] :
             mStep \in getCurrentStep(p, m, steps)}
    ELSE IF p.state = "PLAYING_STEP"
    THEN LET timer == isDelayTimeElapsed(p.stepDelay, t, lag)
         IN  {[p EXCEPT !.stepDelay = timer.d,
                        !.state = IF timer.elapsed THEN "ADVANCE_STEP" ELSE @]}
    ELSE IF p.state = "ADVANCE_STEP"
    THEN {advanceToNextStep(p, m)}
    ELSE {p}

----------------------------------------------------------------------------
(* Arguments the calls are made with *)

\* setTempo: below the range, the tempo of main.cpp:78, above the range
TempoArgs == {-1, 0, 76, MaxBpm + 1}
\* gap: none, the gap of main.cpp:79, above the range
GapArgs == {0, 15, MaxGapMs + 1}
\* notes::G5 and notes::REST
HzArgs == {0, 784}
\* invalid, durations::Quarter, the shortest notated duration
DenomArgs == {0, 4, U8Max}
RawHzArgs == {440}
RawToneMsArgs == {100}
RawRestMsArgs == {0}

\* G5 quarter, a note without a notated duration
ScoreNotes == {ScoreNote(784, 4), ScoreNote(784, 0)}

ScoreArgs ==
    {ScoreAt(notes) : notes \in UNION {[1..n -> ScoreNotes] : n \in 0..MaxScoreLen}}

\* functions handed to compose
ComposeArgs ==
    { <<>>,
      << [op |-> "addNote", a |-> 784, d |-> 4],
         [op |-> "addNote", a |-> 0, d |-> U8Max] >>,
      << [op |-> "setTempo", a |-> MaxBpm + 1, d |-> 0],
         [op |-> "addToneMs", a |-> 440, d |-> 100] >>,
      << [op |-> "gap", a |-> 15, d |-> 0],
         [op |-> "addRest", a |-> 0, d |-> 0],
         [op |-> "addRestMs", a |-> 0, d |-> 0] >> }

NoProbe == [pc |-> "idle", denom |-> 0, bpm |-> 0, gapMs |-> 0,
            ms |-> 0, playMs |-> 0, restMs |-> 0]

----------------------------------------------------------------------------
(* The builder driven by its caller *)

Init ==
    /\ \E capacity \in {0, MaxCapacity} :
          Is(MelodyBuilder(StepArray(capacity), capacity))
    /\ lastOp = "MelodyBuilder"
    /\ probe = NoProbe
    /\ MainInit

ClearMelody ==
    /\ \E toDefault \in BOOLEAN : Becomes(clearMelody(Cur, toDefault))
    /\ lastOp' = "clearMelody"
    /\ UNCHANGED probe
    /\ UNCHANGED mvars

SetTempo ==
    /\ \E bpm \in TempoArgs : Becomes(setTempo(Cur, bpm))
    /\ lastOp' = "setTempo"
    /\ UNCHANGED probe
    /\ UNCHANGED mvars

Gap ==
    /\ \E gapMs \in GapArgs : Becomes(gap(Cur, gapMs))
    /\ lastOp' = "gap"
    /\ UNCHANGED probe
    /\ UNCHANGED mvars

AddNote ==
    /\ \E hz \in HzArgs, denom \in DenomArgs : Becomes(addNote(Cur, hz, denom))
    /\ lastOp' = "addNote"
    /\ UNCHANGED probe
    /\ UNCHANGED mvars

AddRest ==
    /\ \E denom \in DenomArgs : Becomes(addRest(Cur, denom))
    /\ lastOp' = "addRest"
    /\ UNCHANGED probe
    /\ UNCHANGED mvars

AddToneMs ==
    /\ \E hz \in RawHzArgs, ms \in RawToneMsArgs : Becomes(addToneMs(Cur, hz, ms))
    /\ lastOp' = "addToneMs"
    /\ UNCHANGED probe
    /\ UNCHANGED mvars

AddRestMs ==
    /\ \E ms \in RawRestMsArgs : Becomes(addRestMs(Cur, ms))
    /\ lastOp' = "addRestMs"
    /\ UNCHANGED probe
    /\ UNCHANGED mvars

AppendScore ==
    /\ \/ \E score \in ScoreArgs : Becomes(appendScore(Cur, score, Len(score.notes)))
       \/ \E count \in 0..1 : Becomes(appendScore(Cur, NullScore, count))
    /\ lastOp' = "appendScore"
    /\ UNCHANGED probe
    /\ UNCHANGED mvars

Compose ==
    /\ \E func \in ComposeArgs : Becomes(compose(Cur, func))
    /\ lastOp' = "compose"
    /\ UNCHANGED probe
    /\ UNCHANGED mvars

Next ==
    \/ ClearMelody
    \/ SetTempo
    \/ Gap
    \/ AddNote
    \/ AddRest
    \/ AddToneMs
    \/ AddRestMs
    \/ AppendScore
    \/ Compose

Spec == Init /\ [][Next]_vars

(* The builder driven through its musical-notation calls only *)

NextScore ==
    \/ ClearMelody
    \/ SetTempo
    \/ Gap
    \/ AddNote
    \/ AddRest
    \/ AppendScore

SpecScore == Init /\ [][NextScore]_vars

----------------------------------------------------------------------------
(* The pure computations applied to drawn arguments: denomToMs_(denom, bpm) *)
(* as addNote / addRest call it, then the gap split of addNote on its       *)
(* result.  probe.pc: "args" -> "converted" -> "split".                     *)

\* uint16_t bpm: 0, every small tempo, the tempos of main.cpp and of the
\* default context, the top of the accepted range, and tempos beyond it
BpmProbeArgs == (0..BpmDense) \cup {76, DefaultBpm, MaxBpm, 941, 1000, U16Max}
\* accepted gaps: every small gap, the gap of main.cpp, the largest gap
GapProbeArgs == (0..GapDense) \cup {15, MaxGapMs}
\* the frequency of the probed tone (notes::G5)
ProbeHz == 784

InitPure ==
    /\ Is(MelodyBuilder(StepArray(MaxCapacity), MaxCapacity))
    /\ lastOp = "MelodyBuilder"
    /\ \E denom \in 0..U8Max, bpm \in BpmProbeArgs, gapMs \in GapProbeArgs :
          probe = [pc |-> "args", denom |-> denom, bpm |-> bpm, gapMs |-> gapMs,
                   ms |-> 0, playMs |-> 0, restMs |-> 0]
    /\ MainInit

ProbeDenomToMs ==
    /\ probe.pc = "args"
    /\ probe' = [probe EXCEPT
                    !.pc = "converted",
                    !.ms = denomToMs_(Cur, probe.denom, probe.bpm).ms]
    /\ UNCHANGED <<bvars, lastOp>>
    /\ UNCHANGED mvars

\* addNote reaches the split only with a non-zero duration (part_000:153)
ProbeGapSplit ==
    /\ probe.pc = "converted"
    /\ probe.ms # 0
    /\ LET split == GapSplit(ProbeHz, probe.ms, probe.gapMs)
       IN  probe' = [probe EXCEPT
                        !.pc = "split",
                        !.playMs = split.playMs,
                        !.restMs = split.restMs]
    /\ UNCHANGED <<bvars, lastOp>>
    /\ UNCHANGED mvars

NextPure ==
    \/ ProbeDenomToMs
    \/ ProbeGapSplit

SpecPure == InitPure /\ [][NextPure]_vars

----------------------------------------------------------------------------
(* The conversion compared at two arguments: denomToMs_ at (denom, bpm),   *)
(* then at a longer notated-duration denominator or at a faster tempo.     *)
(* probe.pc: "args" -> "converted" -> "compared".                          *)

\* durations::Whole .. durations::ThirtySecond
Durations == {1, 2, 4, 8, 16, 32}

InitMono ==
    /\ Is(MelodyBuilder(StepArray(MaxCapacity), MaxCapacity))
    /\ lastOp = "MelodyBuilder"
    /\ \E denom \in Durations, bpm \in 1..MaxBpm :
          probe = [pc |-> "args", denom |-> denom, bpm |-> bpm, ms |-> 0,
                   denom2 |-> denom, bpm2 |-> bpm, ms2 |-> 0]
    /\ MainInit

MonoDenomToMs ==
    /\ probe.pc = "args"
    /\ probe' = [probe EXCEPT
                    !.pc = "converted",
                    !.ms = denomToMs_(Cur, probe.denom, probe.bpm).ms]
    /\ UNCHANGED <<bvars, lastOp>>
    /\ UNCHANGED mvars

MonoLongerDenom ==
    /\ probe.pc = "converted"
    /\ \E denom2 \in Durations :
          /\ denom2 > probe.denom
          /\ probe' = [probe EXCEPT
                          !.pc = "compared",
                          !.denom2 = denom2,
                          !.ms2 = denomToMs_(Cur, denom2, probe.bpm).ms]
    /\ UNCHANGED <<bvars, lastOp>>
    /\ UNCHANGED mvars

MonoFasterTempo ==
    /\ probe.pc = "converted"
    /\ \E bpm2 \in (probe.bpm + 1)..MaxBpm :
          probe' = [probe EXCEPT
                       !.pc = "compared",
                       !.bpm2 = bpm2,
                       !.ms2 = denomToMs_(Cur, probe.denom, bpm2).ms]
    /\ UNCHANGED <<bvars, lastOp>>
    /\ UNCHANGED mvars

NextMono ==
    \/ MonoDenomToMs
    \/ MonoLongerDenom
    \/ MonoFasterTempo

SpecMono == InitMono /\ [][NextMono]_vars

----------------------------------------------------------------------------
(* The builder's configuration calls at the edges of their ranges, on a    *)
(* builder constructed with or without usable storage.  The argument of    *)
(* the last call is kept in probe.  A builder without storage never has    *)
(* ok_, so appendScore stores nothing through its null buffer_.            *)

BufferArgs == {NullBuffer, StepArray(MaxCapacity)}
\* int bpm (16 bits on the AVR target)
TempoEdgeArgs == {-(2^15), -1, 0, 1, MaxBpm, MaxBpm + 1, 2^15 - 1}
\* uint16_t gapMs
GapEdgeArgs == {0, MaxGapMs, MaxGapMs + 1, U16Max}

CtxProbe(op) == [pc |-> op, bpm |-> 0, gapMs |-> 0, toDefault |-> FALSE]

InitCtx ==
    /\ \E buffer \in BufferArgs, capacity \in {0, MaxCapacity} :
          Is(MelodyBuilder(buffer, capacity))
    /\ lastOp = "MelodyBuilder"
    /\ probe = CtxProbe("MelodyBuilder")
    /\ MainInit

CtxClearMelody ==
    /\ \E toDefault \in BOOLEAN :
          /\ Becomes(clearMelody(Cur, toDefault))
          /\ probe' = [CtxProbe("clearMelody") EXCEPT !.toDefault = toDefault]
    /\ lastOp' = "clearMelody"
    /\ UNCHANGED mvars

CtxSetTempo ==
    /\ \E bpm \in TempoEdgeArgs :
          /\ Becomes(setTempo(Cur, bpm))
          /\ probe' = [CtxProbe("setTempo") EXCEPT !.bpm = bpm]
    /\ lastOp' = "setTempo"
    /\ UNCHANGED mvars

CtxGap ==
    /\ \E gapMs \in GapEdgeArgs :
          /\ Becomes(gap(Cur, gapMs))
          /\ probe' = [CtxProbe("gap") EXCEPT !.gapMs = gapMs]
    /\ lastOp' = "gap"
    /\ UNCHANGED mvars

CtxAppendScore ==
    /\ \E score \in ScoreArgs : Becomes(appendScore(Cur, score, Len(score.notes)))
    /\ lastOp' = "appendScore"
    /\ probe' = CtxProbe("appendScore")
    /\ UNCHANGED mvars

NextCtx ==
    \/ CtxClearMelody
    \/ CtxSetTempo
    \/ CtxGap
    \/ CtxAppendScore

SpecCtx == InitCtx /\ [][NextCtx]_vars

----------------------------------------------------------------------------
(* The overloads of appendScore, the score of the last call kept in probe. *)

ScoreProbe(score, count) == [pc |-> "appendScore", score |-> score, count |-> count]

\* ScoreView{data, count}: a null data pointer may come with any count
ViewArgs == ScoreArgs \cup {NullScore}

InitView ==
    /\ \E capacity \in {0, MaxCapacity} :
          Is(MelodyBuilder(StepArray(capacity), capacity))
    /\ lastOp = "MelodyBuilder"
    /\ probe = ScoreProbe(NullScore, 0)
    /\ MainInit

ViewAppendScore ==
    /\ \/ \E score \in ScoreArgs :
             /\ Becomes(appendScore(Cur, score, Len(score.notes)))
             /\ probe' = ScoreProbe(score, Len(score.notes))
       \/ \E count \in 0..1 :
             /\ Becomes(appendScore(Cur, NullScore, count))
             /\ probe' = ScoreProbe(NullScore, count)
    /\ lastOp' = "appendScore"
    /\ UNCHANGED mvars

AppendScoreView ==
    /\ \E view \in ViewArgs :
          /\ \E after \in appendScoreView(Cur, view) : Becomes(after)
          /\ probe' = ScoreProbe(view, Len(view.notes))
    /\ lastOp' = "appendScore(ScoreView)"
    /\ UNCHANGED mvars

\* readers: reader(i) is defined for every index a buffer of MaxCapacity
\* steps can make the loop reach
ReaderArgs == [1..MaxCapacity -> ScoreNotes]

AppendScoreReader ==
    /\ \E reader \in ReaderArgs, count \in 0..MaxScoreLen :
          /\ Becomes(appendScoreReader(Cur, reader, count))
          /\ probe' = ScoreProbe(ScoreAt(reader), count)
    /\ lastOp' = "appendScore(Reader)"
    /\ UNCHANGED mvars

NextView ==
    \/ ClearMelody
    \/ Gap
    \/ ViewAppendScore
    \/ AppendScoreView
    \/ AppendScoreReader

SpecView == InitView /\ [][NextView]_vars

----------------------------------------------------------------------------
(* The builder compiled with raw steps and handed out with build(), as in  *)
(* melody = builder. ... .build() of main.cpp                              *)

Build ==
    /\ melody' = build(Cur)
    /\ lastOp' = "build"
    /\ UNCHANGED <<bvars, probe, pvars, now, ticks>>

NextBuild ==
    \/ ClearMelody
    \/ SetTempo
    \/ Gap
    \/ AddToneMs
    \/ AddRestMs
    \/ Build

SpecBuild == Init /\ [][NextBuild]_vars

----------------------------------------------------------------------------
(* The player driven by its caller: setup() has compiled a melody and      *)
(* stored its view in the global Melody object; play, stop and update are  *)
(* called in any order while the microsecond counter advances.             *)

\* the clock is advanced at most MaxTicks times
MaxTicks == 5

\* microseconds by which the clock advances between calls
TickArgs == {50000}
\* microseconds between the two reads of micros() in isDelayTimeElapsed
\* (the counter's resolution on the AVR target is 4)
MicrosLag == {0, 4}
\* values of micros() when the player is constructed: just after reset, and
\* 60 ms before the counter wraps
ClockStarts == {UL(0), [hi |-> Limb - 1, lo |-> Limb - 60000]}

\* builders as setup() may leave them: clearMelody(true) followed by no
\* step, by one tone, or by a tone and a rest; and a builder cleared again
\* after a tone was compiled (no step, the tone still in the array)
CompiledArgs ==
    LET cleared == clearMelody(MelodyBuilder(StepArray(MaxCapacity), MaxCapacity), TRUE)
    IN  {cleared,
         addToneMs(cleared, 440, 100),
         addRestMs(addToneMs(cleared, 440, 100), 50),
         clearMelody(addToneMs(cleared, 440, 100), TRUE)}

PlayProbe(loop) == [pc |-> "play", loop |-> loop]

InitPlayer ==
    /\ \E b \in CompiledArgs : Is(b) /\ melody = build(b)
    /\ \E t \in ClockStarts : now = t /\ PlayerIs(BuzzerPlayer(t))
    /\ ticks = 0
    /\ lastOp = "build"
    /\ probe = PlayProbe(FALSE)

Play ==
    /\ \E loop \in BOOLEAN :
          /\ PlayerBecomes(play(Called(Player), loop))
          /\ probe' = PlayProbe(loop)
    /\ lastOp' = "play"
    /\ UNCHANGED <<bvars, melody, now, ticks>>

Stop ==
    /\ PlayerBecomes(stop(Called(Player)))
    /\ lastOp' = "stop"
    /\ UNCHANGED <<bvars, probe, melody, now, ticks>>

Update ==
    /\ \E lag \in (IF state_ = "PLAYING_STEP" THEN MicrosLag ELSE {0}) :
          /\ lag = 0 \/ ticks < MaxTicks
          /\ \E after \in update(Entered(Player), melody, buffer_, now, UL(lag)) :
                PlayerBecomes(after)
          /\ now' = AddUL(now, UL(lag))
          /\ ticks' = IF lag = 0 THEN ticks ELSE ticks + 1
    /\ lastOp' = "update"
    /\ UNCHANGED <<bvars, probe, melody>>

Tick ==
    /\ ticks < MaxTicks
    /\ \E us \in TickArgs : now' = AddUL(now, UL(us))
    /\ ticks' = ticks + 1
    /\ lastOp' = "micros"
    /\ UNCHANGED <<bvars, probe, melody, pvars>>

NextPlayer ==
    \/ Play
    \/ Stop
    \/ Update
    \/ Tick

SpecPlayer == InitPlayer /\ [][NextPlayer]_vars

----------------------------------------------------------------------------
(* The step timer by itself: a Delay constructed and armed as the player   *)
(* constructs its stepDelay_, then driven through its public member        *)
(* functions while the microsecond counter advances (and wraps).  probe    *)
(* keeps the last call, its result, and what the counter cannot tell: the  *)
(* microseconds really gone by since the reference timestamp was taken,   *)
(* and whether true has been returned never, once, or more often since the *)
(* application last armed the timer.                                       *)

\* intervals in microseconds: none, a 50 ms and a 100 ms step
DelayArgs == {0, 50000, 100000}

DelayProbe(op, result, sinceRef, trues) ==
    [pc |-> op, result |-> result, sinceRef |-> sinceRef, trues |-> trues]

\* everything but the timer, the clock and probe
dframe == <<bvars, melody, state_, melody_, melodyStepIdx_, looping_,
            hwBackend_, calls, hwLog>>

InitDelay ==
    /\ Is(MelodyBuilder(StepArray(MaxCapacity), MaxCapacity))
    /\ melody = [steps |-> "nullptr", count |-> 0]
    /\ \E t \in ClockStarts, delayTime \in DelayArgs :
          /\ now = t
          /\ PlayerIs([BuzzerPlayer(t) EXCEPT
                          !.stepDelay = DelayInit(Delay(UL(delayTime)), t)])
    /\ ticks = 0
    /\ lastOp = "init"
    /\ probe = DelayProbe("init", FALSE, 0, 0)

TimerInit ==
    /\ stepDelay_' = DelayInit(stepDelay_, now)
    /\ lastOp' = "init"
    /\ probe' = DelayProbe("init", FALSE, 0, 0)
    /\ UNCHANGED <<dframe, now, ticks>>

TimerInitTo ==
    /\ \E delayTime \in DelayArgs :
          stepDelay_' = DelayInitTo(stepDelay_, UL(delayTime), now)
    /\ lastOp' = "init"
    /\ probe' = DelayProbe("init", FALSE, 0, 0)
    /\ UNCHANGED <<dframe, now, ticks>>

TimerElapsed ==
    /\ \E lag \in MicrosLag :
          /\ lag = 0 \/ ticks < MaxTicks
          /\ LET timer == isDelayTimeElapsed(stepDelay_, now, UL(lag))
                 spent == IF timer.elapsed THEN lag ELSE 0
             IN  /\ stepDelay_' = timer.d
                 /\ now' = AddUL(now, UL(spent))
                 /\ ticks' = IF spent = 0 THEN ticks ELSE ticks + 1
                 /\ probe' = DelayProbe("isDelayTimeElapsed", timer.elapsed,
                                        IF timer.elapsed THEN 0 ELSE probe.sinceRef,
                                        IF timer.elapsed
                                        THEN Min(probe.trues + 1, 2)
                                        ELSE probe.trues)
    /\ lastOp' = "isDelayTimeElapsed"
    /\ UNCHANGED dframe

TimerStop ==
    /\ stepDelay_' = stopDelay(stepDelay_)
    /\ lastOp' = "stopDelay"
    /\ probe' = [probe EXCEPT !.pc = "stopDelay", !.result = FALSE]
    /\ UNCHANGED <<dframe, now, ticks>>

TimerUpdate ==
    /\ \E newDelayTime \in DelayArgs :
          stepDelay_' = updateDelayTime(stepDelay_, UL(newDelayTime))
    /\ lastOp' = "updateDelayTime"
    /\ probe' = [probe EXCEPT !.pc = "updateDelayTime", !.result = FALSE]
    /\ UNCHANGED <<dframe, now, ticks>>

TimerRestart ==
    /\ stepDelay_' = restartTimer(stepDelay_, now)
    /\ lastOp' = "restartTimer"
    /\ probe' = DelayProbe("restartTimer", FALSE, 0, 0)
    /\ UNCHANGED <<dframe, now, ticks>>

TimerTick ==
    /\ ticks < MaxTicks
    /\ \E us \in TickArgs :
          /\ now' = AddUL(now, UL(us))
          /\ probe' = [probe EXCEPT !.pc = "micros", !.result = FALSE,
                                    !.sinceRef = @ + us]
    /\ ticks' = ticks + 1
    /\ lastOp' = "micros"
    /\ UNCHANGED <<dframe, stepDelay_>>

NextDelay ==
    \/ TimerInit
    \/ TimerInitTo
    \/ TimerElapsed
    \/ TimerStop
    \/ TimerUpdate
    \/ TimerRestart
    \/ TimerTick

SpecDelay == InitDelay /\ [][NextDelay]_vars

----------------------------------------------------------------------------
(* The sketch as it runs (src/src/main.cpp): setup() compiles a melody and *)
(* calls play() once, then loop() calls update() for ever while the        *)
(* microsecond counter runs on and wraps.  The counter is read here at a   *)
(* quarter of its period, so that it stays in a few values for ever; as    *)
(* loop() does nothing but poll, no quarter period goes by without a poll. *)

\* the counter advance between two polls: 2^30 us, a quarter of its period
LiveTickUs == [hi |-> Limb \div 4, lo |-> 0]

\* the builders of CompiledArgs, and one with a tone longer than a counter
\* advance (2000 s, due at the second advance) followed by a rest
LiveArgs ==
    LET cleared == clearMelody(MelodyBuilder(StepArray(MaxCapacity), MaxCapacity), TRUE)
    IN  CompiledArgs \cup {addRestMs(addToneMs(cleared, 440, 2000000), 50)}

LiveProbe(played, loop) == [pc |-> "live", played |-> played, loop |-> loop]

InitLive ==
    /\ \E b \in LiveArgs : Is(b) /\ melody = build(b)
    /\ \E t \in ClockStarts : now = t /\ PlayerIs(BuzzerPlayer(t))
    /\ ticks = 0
    /\ lastOp = "build"
    /\ probe = LiveProbe(FALSE, FALSE)

\* setup(): player.play(melody, loop)
LivePlay ==
    /\ ~probe.played
    /\ \E loop \in BOOLEAN :
          /\ PlayerBecomes(play(Called(Player), loop))
          /\ probe' = LiveProbe(TRUE, loop)
    /\ lastOp' = "play"
    /\ UNCHANGED <<bvars, melody, now, ticks>>

\* loop(): player.update()
LiveUpdate ==
    /\ probe.played
    /\ \E after \in update(Entered(Player), melody, buffer_, now, UL(0)) :
          PlayerBecomes(after)
    /\ lastOp' = "update"
    /\ UNCHANGED <<bvars, probe, melody, now, ticks>>

\* the counter runs on; once playback has begun, loop() has called
\* update() since the counter last advanced
LiveTick ==
    /\ probe.played => lastOp # "micros"
    /\ now' = AddUL(now, LiveTickUs)
    /\ lastOp' = "micros"
    /\ UNCHANGED <<bvars, probe, melody, pvars, ticks>>

NextLive ==
    \/ LivePlay
    \/ LiveUpdate
    \/ LiveTick

\* setup() returns, loop() is called again and again, the counter never
\* stops
SpecLive ==
    /\ InitLive
    /\ [][NextLive]_vars
    /\ WF_vars(LivePlay)
    /\ WF_vars(LiveUpdate)
    /\ WF_vars(LiveTick)

----------------------------------------------------------------------------
(* The player with steps whose duration in microseconds is at the limit of *)
(* unsigned long: the calls and the clock of SpecPlayer, the melody one    *)
(* raw tone of MaxExactMs or of MaxExactMs + 1 milliseconds                *)

\* the longest duration, in ms, whose 1000-fold is below 2^32:
\* (2^32 - 1) \div 1000
MaxExactMs == 4294967

\* the bits of a * k above the 32 that unsigned long keeps
OverflowUL(a, k) == (a.hi * k + ((a.lo * k) \div Limb)) \div Limb

LongArgs ==
    LET cleared == clearMelody(MelodyBuilder(StepArray(MaxCapacity), MaxCapacity), TRUE)
    IN  {addToneMs(cleared, 440, ms) : ms \in {MaxExactMs, MaxExactMs + 1}}

InitLong ==
    /\ \E b \in LongArgs : Is(b) /\ melody = build(b)
    /\ \E t \in ClockStarts : now = t /\ PlayerIs(BuzzerPlayer(t))
    /\ ticks = 0
    /\ lastOp = "build"
    /\ probe = PlayProbe(FALSE)

SpecLong == InitLong /\ [][NextPlayer]_vars

----------------------------------------------------------------------------
(* Properties *)

\* the duration conversion as the specification states it:
\* floor(240000 / (bpm * notatedDuration)), raised to 1 when that is 0
ToMs(denom, bpm) ==
    LET q == 240000 \div (bpm * denom) IN IF q = 0 THEN 1 ELSE q

\* the steps currently compiled: buffer_[0 .. length_)
Compiled == {buffer_[i] : i \in 0..(Min(length_, capacity_) - 1)}

\* C1: once the builder is invalid, every mutating call other than
\* clearMelody leaves length, buffer contents, tempo and gap unchanged.
C1_InvalidBuilderIgnoresCalls ==
    [][(~ok_ /\ lastOp' # "clearMelody")
          => UNCHANGED <<length_, buffer_, ctx_>>]_vars

\* C2: validity is sticky: a call other than clearMelody made on an invalid
\* builder leaves it invalid.
C2_ValidityIsSticky ==
    [][(~ok_ /\ lastOp' # "clearMelody") => ~ok_']_vars

\* C2 witness: addToneMs has run on a builder that was already invalid (it had
\* room, so the call itself did not overflow), and the builder is still invalid.
C2_Witness ==
    /\ lastOp = "addToneMs"
    /\ ~ok_
    /\ 0 < length_
    /\ length_ < capacity_

\* C3: in every reachable state length <= capacity, and no store has gone to
\* a buffer index >= capacity.
C3_LengthWithinCapacity ==
    /\ length_ <= capacity_
    /\ ~oob
    /\ DOMAIN buffer_ = 0..(capacity_ - 1)

\* C3 witness: a push has been attempted on a full buffer.
C3_Witness ==
    /\ capacity_ > 0
    /\ attempts > capacity_
    /\ length_ = capacity_

\* C4: once more steps have been pushed than the buffer holds, the builder is
\* invalid, its length is exactly the capacity, and the buffer holds the first
\* `capacity` steps that were pushed.
C4_OverflowKeepsFirstSteps ==
    attempts > capacity_ =>
        /\ ~ok_
        /\ length_ = capacity_
        /\ \A i \in 0..(capacity_ - 1) : buffer_[i] = pushLog[i + 1]

\* C4 witness: appendScore has overflowed a buffer of MaxCapacity steps.
C4_Witness ==
    /\ lastOp = "appendScore"
    /\ capacity_ = MaxCapacity
    /\ attempts > capacity_
    /\ ~ok_

\* C5: after any sequence of setTempo, gap, addNote, addRest and appendScore
\* calls, every compiled step has durationMs >= 1.
C5_NoZeroDurationStep ==
    \A st \in Compiled : st.durationMs >= 1

\* C6: addNote and addRest with notated duration 0 make the builder invalid
\* and append nothing.
C6_ZeroDenomRejected ==
    [][(\/ /\ lastOp' = "addNote"
           /\ \E hz \in HzArgs : Becomes(addNote(Cur, hz, 0))
        \/ /\ lastOp' = "addRest"
           /\ Becomes(addRest(Cur, 0)))
          => (~ok_' /\ length_' = length_)]_vars

\* C7: for a tone with notated duration >= 1 on a valid builder with room for
\* two steps, addNote with converted duration D and gap G appends a tone step
\* of D - min(G, D - 10) and a silence step of min(G, D - 10) when G > 0 and
\* D > 10, and otherwise the single tone step of D.
C7_GapSplitOfTone ==
    [][\A hz \in HzArgs \ {0}, denom \in DenomArgs \ {0} :
          (/\ ok_
           /\ length_ + 2 <= capacity_
           /\ lastOp' = "addNote"
           /\ Becomes(addNote(Cur, hz, denom)))
          => LET D == ToMs(denom, ctx_.bpm)
                 G == ctx_.gapMs
                 R == Min(G, D - 10)
             IN  IF G > 0 /\ D > 10
                 THEN /\ length_' = length_ + 2
                      /\ buffer_' = [buffer_ EXCEPT
                                        ![length_] = Step(hz, D - R),
                                        ![length_ + 1] = Step(0, R)]
                 ELSE /\ length_' = length_ + 1
                      /\ buffer_' = [buffer_ EXCEPT ![length_] = Step(hz, D)]]_vars

\* C7 witness: setTempo(76).gap(15).addNote(784, 4) on an empty builder: a
\* tone step followed by a 15 ms rest, totalling toMs(4, 76) = 789.
C7_Witness ==
    /\ lastOp = "addNote"
    /\ ok_
    /\ ctx_ = [bpm |-> 76, gapMs |-> 15]
    /\ length_ = 2
    /\ buffer_[0] = Step(784, 774)
    /\ buffer_[1] = Step(0, 15)

\* C8: for every tone of converted duration D and every gap G in 0..1000 the
\* play and rest durations computed by addNote satisfy P + R = D, P >= 10
\* whenever D >= 10, and neither subtraction underflows.
C8_GapSplitInvariant ==
    probe.pc = "split" =>
        /\ probe.playMs + probe.restMs = probe.ms
        /\ probe.ms >= MIN_PLAY_MS => probe.playMs >= MIN_PLAY_MS
        /\ probe.playMs >= 0
        /\ probe.restMs >= 0
        /\ probe.restMs <= probe.gapMs

\* C8 witness: a requested gap larger than D - 10 has been clamped.
C8_Witness ==
    /\ probe.pc = "split"
    /\ probe.ms > MIN_PLAY_MS
    /\ probe.gapMs > probe.ms - MIN_PLAY_MS
    /\ probe.restMs = probe.ms - MIN_PLAY_MS
    /\ probe.playMs = MIN_PLAY_MS

C10_ConversionFormula ==
    (probe.pc # "args" /\ probe.denom >= 1 /\ probe.bpm >= 1) =>
        LET divisor == probe.bpm * probe.denom
        IN  /\ divisor <= 240000 =>
                 /\ probe.ms * divisor <= 240000
                 /\ 240000 < (probe.ms + 1) * divisor
            /\ divisor > 240000 => probe.ms = 1
            /\ (probe.bpm = 120 /\ probe.denom = 4) => probe.ms = 500
            /\ (probe.bpm = 120 /\ probe.denom = 2) => probe.ms = 1000
            /\ (probe.bpm = 120 /\ probe.denom = 1) => probe.ms = 2000

\* C10 witness: a quotient of 0 has been raised to 1 ms.
C10_Witness ==
    /\ probe.pc = "converted"
    /\ probe.bpm * probe.denom > 240000
    /\ probe.ms = 1

\* C11: for bpm in 1..300 and notated durations in {1,2,4,8,16,32} the
\* converted duration does not grow when the notated duration grows nor when
\* the tempo grows, and it is always >= 1.
C11_ConversionMonotone ==
    /\ probe.pc \in {"converted", "compared"} => probe.ms >= 1
    /\ probe.pc = "compared" =>
          /\ probe.ms2 >= 1
          /\ probe.ms2 <= probe.ms

\* C11 witness: a faster tempo has given a strictly shorter duration for the
\* shortest note of the table.
C11_Witness ==
    /\ probe.pc = "compared"
    /\ probe.denom = 32
    /\ probe.bpm2 > probe.bpm
    /\ probe.ms2 < probe.ms

\* C12: setTempo accepts exactly 1..300 and gap exactly 0..1000: an accepted
\* value is stored and validity is left as it was; a rejected value (tempo
\* <= 0 included) clears validity and leaves the stored tempo / gap as it was.
C12_RangeChecks ==
    [][/\ lastOp' = "setTempo" =>
             IF probe'.bpm \in 1..300
             THEN ctx_'.bpm = probe'.bpm /\ ok_' = ok_
             ELSE ctx_'.bpm = ctx_.bpm /\ ok_' = FALSE
       /\ lastOp' = "gap" =>
             IF probe'.gapMs \in 0..1000
             THEN ctx_'.gapMs = probe'.gapMs /\ ok_' = ok_
             ELSE ctx_'.gapMs = ctx_.gapMs /\ ok_' = FALSE]_vars

\* C12 witness: setTempo(0) has invalidated a builder whose tempo is still
\* the accepted upper edge 300.
C12_Witness ==
    /\ lastOp = "setTempo"
    /\ probe.bpm = 0
    /\ ~ok_
    /\ ctx_.bpm = 300
    /\ ctx_.gapMs = 1000

\* C13: clearMelody(toDefault) sets the length to 0 from any state; with
\* toDefault the tempo becomes 120 and the gap 0, without it both are kept;
\* afterwards ok() holds iff the buffer is non-null and the capacity > 0.
C13_ClearMelody ==
    [][lastOp' = "clearMelody" =>
          /\ length_' = 0
          /\ IF probe'.toDefault
             THEN ctx_'.bpm = 120 /\ ctx_'.gapMs = 0
             ELSE ctx_' = ctx_
          /\ ok_' = ((~bufferNull') /\ capacity_' > 0)
          /\ bufferNull' = bufferNull /\ capacity_' = capacity_]_vars

\* C13 witness: a builder given a capacity but no storage is still invalid
\* after clearMelody(false), which kept the tempo 300 set before.
C13_Witness ==
    /\ lastOp = "clearMelody"
    /\ ~probe.toDefault
    /\ bufferNull /\ capacity_ > 0
    /\ ~ok_
    /\ ctx_.bpm = 300

\* C13 witness: clearMelody(true) has emptied a full builder and made an
\* overflowed builder valid again.
C13_WitnessRevalidated ==
    /\ lastOp = "clearMelody"
    /\ probe.toDefault
    /\ ok_ /\ length_ = 0
    /\ buffer_[0].freqHz # 0

C15_RawStepsUnchanged ==
    [][/\ \A hz \in RawHzArgs, ms \in RawToneMsArgs :
             (/\ ok_
              /\ length_ < capacity_
              /\ lastOp' = "addToneMs"
              /\ Becomes(addToneMs(Cur, hz, ms)))
             => /\ length_' = length_ + 1
                /\ buffer_' = [buffer_ EXCEPT ![length_] = Step(hz, ms)]
                /\ ok_'
                /\ ctx_' = ctx_
       /\ \A ms \in RawRestMsArgs :
             (/\ ok_
              /\ length_ < capacity_
              /\ lastOp' = "addRestMs"
              /\ Becomes(addRestMs(Cur, ms)))
             => /\ length_' = length_ + 1
                /\ buffer_' = [buffer_ EXCEPT ![length_] = Step(0, ms)]
                /\ ok_'
                /\ ctx_' = ctx_]_vars

\* C15 witness: setTempo(76).gap(15).addToneMs(440, 100) on an empty
\* builder: the single step (440, 100).
C15_Witness ==
    /\ lastOp = "addToneMs"
    /\ ok_
    /\ ctx_ = [bpm |-> 76, gapMs |-> 15]
    /\ length_ = 1
    /\ buffer_[0] = Step(440, 100)

\* addNote(notes[i].hz, notes[i].denom) for i, i+1, .. count in order, no
\* further note being added once the builder is invalid
RECURSIVE AddNotesInOrder(_, _, _, _)
AddNotesInOrder(b, notes, count, i) ==
    IF i > count \/ ~b.ok
    THEN b
    ELSE AddNotesInOrder(addNote(b, notes[i].hz, notes[i].denom),
                         notes, count, i + 1)

\* C16: appendScore(notes, count) and appendScore(ScoreView) leave the builder
\* as the calls addNote(notes[i].hz, notes[i].denom), i = 0..count-1, made in
\* order up to the first one that leaves the builder invalid; a null array
\* with count > 0 invalidates the builder and appends nothing.
C16_AppendScoreIsAddNoteSequence ==
    [][lastOp' \in {"appendScore", "appendScore(ScoreView)"} =>
          IF probe'.score.null
          THEN /\ UNCHANGED <<length_, buffer_, ctx_>>
               /\ ok_' = (ok_ /\ probe'.count = 0)
          ELSE LET after == AddNotesInOrder(Cur, probe'.score.notes,
                                            probe'.count, 1)
               IN  /\ length_' = after.length
                   /\ buffer_' = after.buffer
                   /\ ctx_' = after.ctx
                   /\ ok_' = after.ok]_vars

\* C16 for the overload with a return statement only
C16_PointerOverload ==
    [][lastOp' = "appendScore" =>
          IF probe'.score.null
          THEN /\ UNCHANGED <<length_, buffer_, ctx_>>
               /\ ok_' = (ok_ /\ probe'.count = 0)
          ELSE LET after == AddNotesInOrder(Cur, probe'.score.notes,
                                            probe'.count, 1)
               IN  /\ length_' = after.length
                   /\ buffer_' = after.buffer
                   /\ ctx_' = after.ctx
                   /\ ok_' = after.ok]_vars

\* C17: appendScore(reader, count) leaves the builder as the calls
\* addNote(reader(i).hz, reader(i).denom), i = 0..count-1, made in order while
\* the builder is valid: on an empty valid builder with enough capacity the
\* steps of all count notes are appended.
C17_ReaderReadsCountNotes ==
    [][lastOp' = "appendScore(Reader)" =>
          LET after == AddNotesInOrder(Cur, probe'.score.notes,
                                       probe'.count, 1)
          IN  /\ length_' = after.length
              /\ buffer_' = after.buffer
              /\ ctx_' = after.ctx
              /\ ok_' = after.ok]_vars

\* C17 on an empty valid builder: a call with count >= 1 appends something
C17_EmptyBuilderGetsNotes ==
    [][(/\ lastOp' = "appendScore(Reader)"
        /\ ok_ /\ length_ = 0 /\ capacity_ > 0
        /\ probe'.count >= 1
        /\ probe'.score.notes[1].denom # 0)
          => length_' > 0]_vars

\* what appendScore(reader, count) does: it reads the indices 0..length-1,
\* length being the number of steps compiled before the call, whatever count
C17_ReaderReadsLengthNotes ==
    [][lastOp' = "appendScore(Reader)" =>
          LET after == AddNotesInOrder(Cur, probe'.score.notes, length_, 1)
          IN  /\ length_' = after.length
              /\ buffer_' = after.buffer
              /\ ctx_' = after.ctx
              /\ ok_' = after.ok]_vars

\* C18: build() returns a view whose count is the current length and whose
\* steps are the builder's own buffer, and leaves length, buffer contents,
\* tempo, gap and validity as they were, also on an invalid builder.
C18_BuildIsAView ==
    [][lastOp' = "build" =>
          /\ melody'.count = length_
          /\ melody'.steps = "buffer_"
          /\ UNCHANGED <<length_, buffer_, bufferNull, capacity_, ctx_, ok_>>]_vars

\* C18 witness: build() on a builder that overflowed (invalid, full) after
\* setTempo(76).gap(15) has returned the view of its MaxCapacity steps.
C18_Witness ==
    /\ lastOp = "build"
    /\ ~ok_
    /\ length_ = MaxCapacity
    /\ melody = [steps |-> "buffer_", count |-> MaxCapacity]
    /\ ctx_ = [bpm |-> 76, gapMs |-> 15]
    /\ buffer_[0] = Step(440, 100)

\* the commands the last player call gave the signal generator
Commands == SelectSeq(calls, LAMBDA c : c.op \in {"start", "stop"})

\* C19: play(melody, loop) from any state leaves the player in START_STEP
\* with index 0 and the melody and loop flag stored, and gives no start()
\* command itself; for a melody with a step 0, the update() that follows is
\* the one that commands start(freq) or stop() for step 0.
C19_PlayArmsOnly ==
    [][/\ lastOp' = "play" =>
             /\ state_' = "START_STEP"
             /\ melodyStepIdx_' = 0
             /\ melody_' = "&melody"
             /\ looping_' = probe'.loop
             /\ \A i \in DOMAIN calls' : calls'[i].op # "start"
       /\ (lastOp = "play" /\ lastOp' = "update" /\ melody.count >= 1) =>
             /\ Commands' = << IF buffer_[0].freqHz > 0
                               THEN [op |-> "start", hz |-> buffer_[0].freqHz]
                               ELSE [op |-> "stop", hz |-> 0] >>
             /\ melodyStepIdx_' = 0
             /\ state_' = "PLAYING_STEP"]_vars

\* C19 witness: play(melody, true) has been called on the player as
\* constructed (never stopped, timer still armed) for the two-step melody: it
\* is in START_STEP at index 0, has stored the melody and the flag, and has
\* commanded nothing.
C19_Witness ==
    /\ lastOp = "play"
    /\ probe.loop
    /\ looping_
    /\ state_ = "START_STEP"
    /\ melodyStepIdx_ = 0
    /\ melody_ = "&melody"
    /\ melody.count = 2
    /\ calls = << [op |-> "melody_ = &melody", hz |-> 0] >>
    /\ ~stepDelay_.disarm
    /\ hwBackend_ = 0

\* C20: play() while a melody is playing first performs stop(): the signal
\* generator is given stop() and the timer is disarmed before the new melody
\* is stored; the new loop flag is the one in force and playback restarts from
\* index 0.
C20_PlayWhilePlayingStopsFirst ==
    [][(lastOp' = "play" /\ state_ # "IDLE") =>
          /\ calls' = << [op |-> "stop", hz |-> 0],
                         [op |-> "stopDelay", hz |-> 0],
                         [op |-> "melody_ = &melody", hz |-> 0] >>
          /\ hwBackend_' = 0
          /\ stepDelay_'.disarm
          /\ looping_' = probe'.loop
          /\ melody_' = "&melody"
          /\ melodyStepIdx_' = 0
          /\ state_' = "START_STEP"]_vars

\* C20 witness: play(melody, true) called while the tone of step 0 was
\* sounding: the generator is stopped, the timer disarmed, the loop flag set.
C20_Witness ==
    /\ lastOp = "play"
    /\ probe.loop
    /\ looping_
    /\ Len(calls) = 3
    /\ calls[1].op = "stop"
    /\ hwBackend_ = 0
    /\ stepDelay_.disarm
    /\ stepDelay_.delayTime = UL(100000)
    /\ state_ = "START_STEP"

\* the data members of the player p and the state of its signal generator
Members(p) == <<p.state, p.melody, p.idx, p.looping, p.stepDelay, p.hw>>

\* C21: stop() from any player state, IDLE included, leaves state IDLE, the
\* melody reference cleared, index 0, the loop flag false, the timer disarmed
\* and the signal generator stopped; a second stop() right after the first
\* leaves the player exactly as the first did.
C21_StopIsIdempotent ==
    [][lastOp' = "stop" =>
          /\ state_' = "IDLE"
          /\ melody_' = "nullptr"
          /\ melodyStepIdx_' = 0
          /\ looping_' = FALSE
          /\ stepDelay_'.disarm
          /\ hwBackend_' = 0
          /\ Commands' = << [op |-> "stop", hz |-> 0] >>
          /\ LET once == Player'
             IN  Members(stop(Called(once))) = Members(once)
          /\ lastOp = "stop" =>
                UNCHANGED <<state_, melody_, melodyStepIdx_, looping_,
                            stepDelay_, hwBackend_>>]_vars

\* C21 witness: stop() has been called while the rest of the two-step melody
\* (a 50 ms step) was being timed with the loop flag asked for.
C21_Witness ==
    /\ lastOp = "stop"
    /\ state_ = "IDLE"
    /\ melody_ = "nullptr"
    /\ ~looping_
    /\ probe.loop
    /\ stepDelay_.disarm
    /\ stepDelay_.delayTime = UL(50000)
    /\ hwBackend_ = 0

\* the step timer would report elapsed to a call made now
TimerDue ==
    /\ ~stepDelay_.disarm
    /\ GeUL(SubUL(now, stepDelay_.previousTime), stepDelay_.delayTime)

\* the player is on the last step of the melody it plays
OnLastStep ==
    /\ melody_ = "&melody"
    /\ melodyStepIdx_ + 1 >= melody.count

\* C22: with the loop flag set, when the timer of the last step has elapsed
\* update() goes PLAYING_STEP -> ADVANCE_STEP and then ADVANCE_STEP ->
\* START_STEP with the index back at 0 and the melody reference and loop flag
\* kept; it does not go to IDLE and commands nothing.
C22_LoopWrapsToStepZero ==
    [][(lastOp' = "update" /\ looping_ /\ OnLastStep) =>
          /\ (state_ = "PLAYING_STEP" /\ TimerDue) =>
                /\ state_' = "ADVANCE_STEP"
                /\ UNCHANGED <<melodyStepIdx_, melody_, looping_, hwBackend_>>
          /\ state_ = "ADVANCE_STEP" =>
                /\ state_' = "START_STEP"
                /\ melodyStepIdx_' = 0
                /\ UNCHANGED <<melody_, looping_, hwBackend_>>
                /\ calls' = << >>]_vars

\* C22 witness: the two-step melody [(440,100),(0,50)] played with loop: the
\* timer last armed for the 50 ms rest has elapsed and the player is back in
\* START_STEP at index 0.
C22_Witness ==
    /\ lastOp = "update"
    /\ state_ = "START_STEP"
    /\ melodyStepIdx_ = 0
    /\ looping_
    /\ melody_ = "&melody"
    /\ melody.count = 2
    /\ buffer_[0] = Step(440, 100) /\ buffer_[1] = Step(0, 50)
    /\ stepDelay_.delayTime = UL(50000)
    /\ ~stepDelay_.disarm

\* hwLog[i] is the stop() given when the playback ran off the end of the
\* melody: given in ADVANCE_STEP with the index already at count
EndOfMelodyStop(i) ==
    /\ hwLog[i].state = "ADVANCE_STEP"
    /\ hwLog[i].idx = melody.count

\* C23: without the loop flag, once the timer of the final step has elapsed
\* update() takes the player to IDLE and stop() is given to the signal
\* generator exactly once after that elapse; nothing else, and no start(),
\* is commanded afterwards until play() is called again.
C23_EndsWithOneStop ==
    /\ [](melody.count >= 1 =>
            \A i \in 1..(MaxLog - 1) :
               (i \in DOMAIN hwLog /\ EndOfMelodyStop(i)) =>
                  /\ i = Len(hwLog)
                  /\ hwLog[i].op = "stop"
                  /\ i > 1
                  /\ hwLog[i - 1].fn = "update"
                  /\ hwLog[i - 1].idx = melody.count - 1
                  /\ state_ = "IDLE"
                  /\ hwBackend_ = 0)
    /\ [][(/\ lastOp' = "update"
           /\ melody.count >= 1
           /\ ~looping_
           /\ OnLastStep) =>
             /\ (state_ = "PLAYING_STEP" /\ TimerDue) =>
                   (state_' = "ADVANCE_STEP" /\ calls' = << >>)
             /\ state_ = "ADVANCE_STEP" =>
                   /\ state_' = "IDLE"
                   /\ Commands' = << [op |-> "stop", hz |-> 0] >>
                   /\ Len(hwLog) < MaxLog =>
                         hwLog' = Append(hwLog,
                                         [op |-> "stop", hz |-> 0,
                                          idx |-> melody.count,
                                          state |-> "ADVANCE_STEP",
                                          fn |-> "stop"])]_vars

\* C23 witness: the two-step melody played without loop has run to its end
\* and update() has been called again in IDLE: start(440) for step 0, stop()
\* for the rest of step 1, and the one stop() of the end.
C23_Witness ==
    /\ lastOp = "update"
    /\ state_ = "IDLE"
    /\ calls = << >>
    /\ melody.count = 2
    /\ hwLog = << [op |-> "start", hz |-> 440, idx |-> 0,
                   state |-> "START_STEP", fn |-> "update"],
                  [op |-> "stop", hz |-> 0, idx |-> 1,
                   state |-> "START_STEP", fn |-> "update"],
                  [op |-> "stop", hz |-> 0, idx |-> 2,
                   state |-> "ADVANCE_STEP", fn |-> "stop"] >>

\* C24: play() with an empty melody (count = 0) moves to START_STEP, and the
\* first update() after it ends in IDLE without commanding a tone and without
\* arming the step timer.
C24_EmptyMelodyStopsAtOnce ==
    [][/\ (lastOp' = "play" /\ melody.count = 0) => state_' = "START_STEP"
       /\ (lastOp = "play" /\ lastOp' = "update" /\ melody.count = 0) =>
             /\ state_' = "IDLE"
             /\ hwBackend_' = 0
             /\ \A i \in DOMAIN calls' : calls'[i].op # "start"
             /\ stepDelay_'.delayTime = stepDelay_.delayTime
             /\ stepDelay_'.previousTime = stepDelay_.previousTime]_vars

\* what the first update() after play() does for an empty melody: it takes
\* the step at index 0 of the array behind the view, commands it, arms the
\* timer with its duration and goes to PLAYING_STEP
C24_EmptyMelodyPlaysArraySlot ==
    [][(lastOp = "play" /\ lastOp' = "update" /\ melody.count = 0) =>
          /\ state_' = "PLAYING_STEP"
          /\ hwBackend_' = buffer_[0].freqHz
          /\ stepDelay_' = [delayTime |-> MulUL(UL(buffer_[0].durationMs), 1000),
                            previousTime |-> now,
                            disarm |-> FALSE]]_vars

\* the commands update() gave for steps since the last play()
StepCommands == SelectSeq(hwLog, LAMBDA c : c.fn = "update")

\* the k-th step command since play() is the command of step (k-1) mod count
\* of the melody, and without the loop flag there are at most count of them
InIndexOrder ==
    \A k \in DOMAIN StepCommands :
       LET c == StepCommands[k]
           i == (k - 1) % melody.count
       IN  /\ c.idx = i
           /\ c.hz = buffer_[i].freqHz
           /\ c.op = IF buffer_[i].freqHz > 0 THEN "start" ELSE "stop"
           /\ (k > melody.count) => looping_

\* C25: under any interleaving of time advance and update() calls the steps
\* commanded on the signal generator are those of the melody in index order
\* 0, 1, .., count-1 (again from 0 when looping): none skipped, repeated
\* within a pass or out of order, and none that the melody does not have.
C25_StepsInIndexOrder ==
    IF melody.count = 0 THEN StepCommands = << >> ELSE InIndexOrder

\* C25 for the melodies that have a step
C25_NonEmptyInIndexOrder ==
    melody.count >= 1 => InIndexOrder

\* a second pass of the looping two-step melody has begun, after updates
\* that came late
C25_SecondPassReached ==
    /\ melody.count = 2
    /\ looping_
    /\ Len(StepCommands) = 3
    /\ ticks = MaxTicks

\* C26: each update() call executes the transition of exactly one state, the
\* one held on entry: the state on exit is that state or its direct successor
\* along one FSM edge, and nothing that belongs to the successor's case (its
\* command, its timer arming, its index change) is done in the same call.
C26_OneTransitionPerUpdate ==
    [][lastOp' = "update" =>
          /\ state_ = "IDLE" =>
                /\ state_' = "IDLE"
                /\ calls' = << >>
                /\ UNCHANGED <<melodyStepIdx_, stepDelay_, hwBackend_>>
          /\ state_ = "START_STEP" =>
                /\ state_' = "PLAYING_STEP"
                /\ Len(Commands') = 1
                /\ stepDelay_'.previousTime = now
                /\ UNCHANGED melodyStepIdx_
          /\ state_ = "PLAYING_STEP" =>
                /\ state_' = IF TimerDue THEN "ADVANCE_STEP" ELSE "PLAYING_STEP"
                /\ calls' = << >>
                /\ UNCHANGED <<melodyStepIdx_, hwBackend_>>
          /\ state_ = "ADVANCE_STEP" =>
                /\ state_' \in {"START_STEP", "IDLE"}
                /\ \A i \in DOMAIN calls' : calls'[i].op # "start"
                /\ stepDelay_'.delayTime = stepDelay_.delayTime
                /\ stepDelay_'.previousTime = stepDelay_.previousTime
                /\ state_' = "START_STEP" => hwBackend_' = hwBackend_]_vars

\* C26 witness: the update() that found the 100 ms timer of step 0 elapsed
\* has only moved to ADVANCE_STEP: the index is still 0 and the tone still on.
C26_Witness ==
    /\ lastOp = "update"
    /\ state_ = "ADVANCE_STEP"
    /\ melodyStepIdx_ = 0
    /\ melody.count = 2
    /\ hwBackend_ = 440
    /\ stepDelay_.delayTime = UL(100000)
    /\ calls = << >>

\* the number of microseconds an unsigned long below 2^31 stands for
Micros(u) == u.hi * Limb + u.lo

\* the counter has wrapped since the reference timestamp was taken
WrappedSinceRef == ~GeUL(now, stepDelay_.previousTime)

\* C27: for an armed timer isDelayTimeElapsed() returns true iff
\* (now - reference) modulo 2^32 >= interval, which is the right answer, the
\* microseconds really gone by since the reference being >= the interval,
\* also when the counter has wrapped between the arming and the call.
C27_ElapsedAcrossWrap ==
    [][(lastOp' = "isDelayTimeElapsed" /\ ~stepDelay_.disarm) =>
          /\ probe'.result =
                GeUL(SubUL(now, stepDelay_.previousTime), stepDelay_.delayTime)
          /\ probe'.result = (probe.sinceRef >= Micros(stepDelay_.delayTime))]_vars

\* C27 witness: a 100 ms timer armed 60 ms before the counter wrapped has
\* just been reported elapsed, 40 ms after the wrap.
C27_Witness ==
    /\ lastOp = "isDelayTimeElapsed"
    /\ probe.result
    /\ probe.trues = 1
    /\ stepDelay_.delayTime = UL(100000)
    /\ now = UL(40000)
    /\ ticks = 2

\* C28: after one arming by init(), isDelayTimeElapsed() returns true exactly
\* once: the first call made when the interval has elapsed returns true and
\* every other call before the next init() returns false.
C28_TrueOncePerInit ==
    probe.pc \in {"init", "isDelayTimeElapsed", "micros"} => probe.trues <= 1

\* C28 as the timer behaves: an armed timer returns true on the first call
\* made when the interval has elapsed since the reference timestamp, false on
\* every call made before that, and a true result makes the time of that call
\* the new reference; so true results without a new init() are at least one
\* interval apart, and with an interval > 0 no two consecutive calls made
\* without time passing both return true.
C28_TrueOncePerInterval ==
    [][lastOp' = "isDelayTimeElapsed" =>
          /\ probe'.result =
                (~stepDelay_.disarm /\ probe.sinceRef >= Micros(stepDelay_.delayTime))
          /\ probe'.result =>
                (probe'.sinceRef = 0 /\ stepDelay_'.previousTime = now')
          /\ ~probe'.result => UNCHANGED stepDelay_
          /\ (/\ lastOp = "isDelayTimeElapsed"
              /\ probe.result
              /\ Micros(stepDelay_.delayTime) > 0) => ~probe'.result]_vars

\* C28 witness: a 50 ms timer armed once by init() has returned true a second
\* time, 50 ms after the first.
C28_Witness ==
    /\ lastOp = "isDelayTimeElapsed"
    /\ probe.result
    /\ probe.trues = 2
    /\ stepDelay_.delayTime = UL(50000)
    /\ ticks = 2

\* C29: after stopDelay() isDelayTimeElapsed() returns false on every call,
\* however much time passes, until init() is called again: only init() ends
\* the disarmed condition, and it takes a fresh reference timestamp.
C29_DisarmedUntilInit ==
    [][/\ lastOp' = "stopDelay" => stepDelay_'.disarm
       /\ (stepDelay_.disarm /\ lastOp' # "init") => stepDelay_'.disarm
       /\ (stepDelay_.disarm /\ lastOp' = "isDelayTimeElapsed") =>
             (~probe'.result /\ UNCHANGED stepDelay_)
       /\ lastOp' = "init" =>
             /\ ~stepDelay_'.disarm
             /\ stepDelay_'.previousTime = now]_vars

\* C29 witness: a 50 ms timer stopped and then asked after 250 ms, five
\* intervals, has answered false.
C29_Witness ==
    /\ lastOp = "isDelayTimeElapsed"
    /\ stepDelay_.disarm
    /\ ~probe.result
    /\ stepDelay_.delayTime = UL(50000)
    /\ probe.sinceRef = 250000
    /\ probe.trues = 0

\* C30: updateDelayTime(d) changes only the interval: the reference timestamp
\* and the armed / disarmed flag stay as they were, so the time gone by since
\* the reference counts against the new interval.
C30_UpdateKeepsReference ==
    [][/\ lastOp' = "updateDelayTime" =>
             /\ stepDelay_'.previousTime = stepDelay_.previousTime
             /\ stepDelay_'.disarm = stepDelay_.disarm
             /\ probe'.sinceRef = probe.sinceRef
       /\ (lastOp = "updateDelayTime" /\ lastOp' = "isDelayTimeElapsed") =>
             probe'.result =
                (~stepDelay_.disarm /\ probe.sinceRef >= Micros(stepDelay_.delayTime))]_vars

\* C30 witness: updateDelayTime(50 ms) has been called on an armed timer
\* whose reference timestamp is 50 ms old and which has not fired yet.
C30_Witness ==
    /\ lastOp = "updateDelayTime"
    /\ ~stepDelay_.disarm
    /\ stepDelay_.delayTime = UL(50000)
    /\ probe.sinceRef = 50000
    /\ probe.trues = 0
    /\ SubUL(now, stepDelay_.previousTime) = UL(50000)

\* the step read in START_STEP is a step of the array: melody_ and the
\* array pointer are set and the index is inside the array
StepReadDefined ==
    /\ melody_ # "nullptr"
    /\ melody.steps # "nullptr"
    /\ melodyStepIdx_ \in DOMAIN buffer_

\* what update() does in START_STEP when the step it read is mStep: one
\* command, start(freqHz) for a tone and stop() for a rest; the timer armed
\* at the time of the call for durationMs * 1000 microseconds; the index,
\* the melody reference and the loop flag kept; the state PLAYING_STEP
StartedStep(mStep) ==
    /\ Commands' = << [op |-> (IF mStep.freqHz # 0 THEN "start" ELSE "stop"),
                       hz |-> mStep.freqHz] >>
    /\ hwBackend_' = mStep.freqHz
    /\ ~stepDelay_'.disarm
    /\ stepDelay_'.previousTime = now
    /\ Micros(stepDelay_'.delayTime) = mStep.durationMs * 1000
    /\ state_' = "PLAYING_STEP"
    /\ UNCHANGED <<melodyStepIdx_, melody_, looping_>>

\* C31: in START_STEP update() reads the step at the current index, commands
\* start(freq) iff its frequency is not zero and stop() otherwise (never
\* start(0)), arms the timer for the step's duration, keeps the index and
\* moves to PLAYING_STEP.  Where the index is outside the array the step is
\* whatever the read yields, and the same is done with it.
C31_StartStep ==
    [][(lastOp' = "update" /\ state_ = "START_STEP") =>
          /\ StepReadDefined => StartedStep(buffer_[melodyStepIdx_])
          /\ \E mStep \in AnyStep \cup {buffer_[i] : i \in DOMAIN buffer_} :
                StartedStep(mStep)
          /\ \A i \in DOMAIN calls' :
                calls'[i].op = "start" => calls'[i].hz # 0]_vars

\* C31 witness: update() has started the rest at index 1 of the tone-and-rest
\* melody: stop() was commanded, the timer runs for 50 ms, the index is 1.
C31_Witness ==
    /\ lastOp = "update"
    /\ state_ = "PLAYING_STEP"
    /\ melody.count = 2
    /\ melodyStepIdx_ = 1
    /\ calls = << [op |-> "stop", hz |-> 0] >>
    /\ hwBackend_ = 0
    /\ stepDelay_.delayTime = UL(50000)
    /\ stepDelay_.previousTime = now

\* C32: in PLAYING_STEP update() moves to ADVANCE_STEP iff the step timer
\* reports elapsed; it never commands the signal generator and never changes
\* the index, the melody reference or the loop flag; and if the timer has
\* not elapsed it changes nothing at all (the tone keeps sounding).
C32_PlayingStep ==
    [][(lastOp' = "update" /\ state_ = "PLAYING_STEP") =>
          /\ state_' = "ADVANCE_STEP" <=> TimerDue
          /\ state_' \in {"PLAYING_STEP", "ADVANCE_STEP"}
          /\ calls' = << >>
          /\ hwLog' = hwLog
          /\ UNCHANGED <<melodyStepIdx_, melody_, looping_, hwBackend_>>
          /\ ~TimerDue => UNCHANGED <<state_, stepDelay_>>]_vars

\* C32 witness: update() polled the 100 ms timer of the tone 50 ms after it
\* was armed and stayed in PLAYING_STEP with the tone on.
C32_Witness ==
    /\ lastOp = "update"
    /\ state_ = "PLAYING_STEP"
    /\ calls = << >>
    /\ hwBackend_ = 440
    /\ stepDelay_.delayTime = UL(100000)
    /\ SubUL(now, stepDelay_.previousTime) = UL(50000)

\* C33: in ADVANCE_STEP update() increments the index by exactly one; if the
\* new index is below count it moves to START_STEP with that index, commands
\* nothing and leaves the generator, the timer, the melody reference and
\* the loop flag as they are.
C33_AdvanceStep ==
    [][(lastOp' = "update" /\ state_ = "ADVANCE_STEP"
            /\ melodyStepIdx_ + 1 < melody.count) =>
          /\ melodyStepIdx_' = melodyStepIdx_ + 1
          /\ state_' = "START_STEP"
          /\ calls' = << >>
          /\ hwLog' = hwLog
          /\ UNCHANGED <<hwBackend_, stepDelay_, melody_, looping_>>]_vars

\* C33 witness: after the tone of the tone-and-rest melody update() has
\* advanced to index 1: START_STEP, nothing commanded, the tone still on.
C33_Witness ==
    /\ lastOp = "update"
    /\ state_ = "START_STEP"
    /\ melody.count = 2
    /\ melodyStepIdx_ = 1
    /\ calls = << >>
    /\ hwBackend_ = 440

\* C34: the player is constructed in IDLE, and in IDLE update() is a no-op,
\* however often it is called: the state, the index, the melody reference,
\* the loop flag and the timer are unchanged and neither start() nor stop()
\* is sent to the signal generator.
C34_IdleIsNoOp ==
    /\ state_ = "IDLE"
    /\ [][(lastOp' = "update" /\ state_ = "IDLE") =>
             /\ calls' = << >>
             /\ hwLog' = hwLog
             /\ UNCHANGED <<state_, melodyStepIdx_, melody_, looping_,
                            stepDelay_, hwBackend_>>]_vars

\* C34 witness: update() was called in IDLE after a playing tone had been
\* stopped by stop(): the timer is still disarmed and the only command since
\* is that stop().
C34_Witness ==
    /\ lastOp = "update"
    /\ state_ = "IDLE"
    /\ calls = << >>
    /\ stepDelay_.disarm
    /\ stepDelay_.delayTime = UL(100000)
    /\ Len(hwLog) = 1
    /\ hwLog[1].fn = "stop"
    /\ hwLog[1].state = "PLAYING_STEP"

\* C35: a call of isDelayTimeElapsed() that returns true makes the current
\* time (the value micros() has when the call returns) the reference
\* timestamp and changes neither the interval nor the armed flag, so the
\* next true result comes no sooner than a full interval later; a call that
\* returns false leaves the reference timestamp and the interval unchanged.
C35_TrueRearmsFromNow ==
    [][lastOp' = "isDelayTimeElapsed" =>
          /\ probe'.result =>
                /\ stepDelay_'.previousTime = now'
                /\ stepDelay_'.delayTime = stepDelay_.delayTime
                /\ stepDelay_'.disarm = stepDelay_.disarm
          /\ (probe'.result /\ probe.trues >= 1) =>
                probe.sinceRef >= Micros(stepDelay_.delayTime)
          /\ ~probe'.result =>
                /\ stepDelay_'.previousTime = stepDelay_.previousTime
                /\ stepDelay_'.delayTime = stepDelay_.delayTime]_vars

\* C35 witness: a 100 ms timer has returned true once, 150 ms after the
\* counter started, and its reference timestamp is the time of that poll.
C35_Witness ==
    /\ lastOp = "isDelayTimeElapsed"
    /\ probe.result
    /\ probe.trues = 1
    /\ ticks = 3
    /\ stepDelay_.delayTime = UL(100000)
    /\ stepDelay_.previousTime = now
    /\ ~stepDelay_.disarm

\* C36: for a melody with count >= 1, in every reachable state of the player
\* in START_STEP or PLAYING_STEP the melody reference is set and the index
\* is below count (and inside the array), so every step read is a step of
\* the melody; and the state is IDLE exactly when the melody reference is
\* null.
C36_IndexInsideMelody ==
    melody.count >= 1 =>
        /\ state_ \in {"START_STEP", "PLAYING_STEP"} =>
              /\ melody_ = "&melody"
              /\ melodyStepIdx_ < melody.count
              /\ StepReadDefined
              /\ buffer_[melodyStepIdx_] \in Compiled
        /\ state_ = "IDLE" <=> melody_ = "nullptr"

\* C36 witness: a looping tone-and-rest melody is in its second pass and
\* plays its last step, index 1 of 2.
C36_Witness ==
    /\ state_ = "PLAYING_STEP"
    /\ looping_
    /\ melody_ = "&melody"
    /\ melody.count = 2
    /\ melodyStepIdx_ = 1
    /\ Len(StepCommands) = 4

\* every step of the melody has been started exactly once, in index order,
\* each with its own frequency
EveryStepStartedOnce ==
    /\ Len(StepCommands) = melody.count
    /\ \A i \in DOMAIN StepCommands :
          /\ StepCommands[i].idx = i - 1
          /\ StepCommands[i].state = "START_STEP"
          /\ StepCommands[i].hz = buffer_[i - 1].freqHz

\* C37: if update() is called again and again and the counter keeps
\* advancing, a melody with count >= 1 played with loop == false eventually
\* reaches IDLE with the signal generator stopped, every step having been
\* started exactly once.
C37_NonLoopReachesIdle ==
    (probe.played /\ ~probe.loop /\ melody.count >= 1) ~>
        (state_ = "IDLE" /\ hwBackend_ = 0 /\ EveryStepStartedOnce)

\* C37 witness: the melody of a 2000 s tone and a rest, played without loop,
\* has ended: IDLE, generator off, two steps started and one final stop().
C37_Witness ==
    /\ probe.played
    /\ ~probe.loop
    /\ melody.count = 2
    /\ buffer_[0].durationMs = 2000000
    /\ state_ = "IDLE"
    /\ hwBackend_ = 0
    /\ EveryStepStartedOnce
    /\ Len(hwLog) = 3

\* a melody with count >= 1 has been handed to play() with loop == true
LoopingPlayback == probe.played /\ probe.loop /\ melody.count >= 1

\* the update() just made has started step 0
StepZeroStarted ==
    /\ lastOp = "update"
    /\ state_ = "PLAYING_STEP"
    /\ melodyStepIdx_ = 0
    /\ Len(Commands) = 1
    /\ stepDelay_.previousTime = now

\* C38: a melody with count >= 1 played with loop == true never reaches IDLE
\* through update(): the melody reference and the loop flag stay set (only
\* stop() or another play() would change them), and with update() polled
\* fairly step 0 is started again and again.
C38_LoopNeverIdle ==
    /\ [][LoopingPlayback' =>
             /\ state_' # "IDLE"
             /\ melody_' = "&melody"
             /\ looping_']_vars
    /\ LoopingPlayback ~> StepZeroStarted
    /\ (LoopingPlayback /\ StepZeroStarted) ~> ~StepZeroStarted

\* C38 witness: the looping one-tone melody is in its third pass: update()
\* has just started step 0 for the third time.
C38_Witness ==
    /\ LoopingPlayback
    /\ StepZeroStarted
    /\ melody.count = 1
    /\ looping_
    /\ Len(StepCommands) = 3

\* C39: addNote is all-or-nothing with respect to capacity: for a tone that
\* gap-splits (gap G > 0, converted duration D > 10) it appends either both
\* steps, the tone of D - R and the rest of R = min(G, D - 10), or neither;
\* a tone step is never left in the buffer without its rest.
C39_AddNoteAllOrNothing ==
    [][\A hz \in HzArgs \ {0}, denom \in DenomArgs \ {0} :
          (/\ lastOp' = "addNote"
           /\ Becomes(addNote(Cur, hz, denom))
           /\ ctx_.gapMs > 0
           /\ ToMs(denom, ctx_.bpm) > MIN_PLAY_MS)
          => LET D == ToMs(denom, ctx_.bpm)
                 R == Min(ctx_.gapMs, D - MIN_PLAY_MS)
             IN  \/ /\ length_' = length_ + 2
                    /\ buffer_' = [buffer_ EXCEPT
                                      ![length_] = Step(hz, D - R),
                                      ![length_ + 1] = Step(0, R)]
                 \/ /\ length_' = length_
                    /\ buffer_' = buffer_]_vars

\* C39 as the builder behaves: with room for exactly one step, addNote of a
\* gap-splitting tone appends the shortened tone step alone, discards the
\* rest and clears ok_; with no room it appends nothing; with room for two
\* it appends both.
C39_ToneKeptRestDiscarded ==
    [][\A hz \in HzArgs \ {0}, denom \in DenomArgs \ {0} :
          (/\ lastOp' = "addNote"
           /\ Becomes(addNote(Cur, hz, denom))
           /\ ctx_.gapMs > 0
           /\ ToMs(denom, ctx_.bpm) > MIN_PLAY_MS)
          => LET D == ToMs(denom, ctx_.bpm)
                 R == Min(ctx_.gapMs, D - MIN_PLAY_MS)
             IN  /\ length_' = Min(length_ + 2, capacity_)
                 /\ length_ + 1 = capacity_ =>
                       /\ buffer_' = [buffer_ EXCEPT ![length_] = Step(hz, D - R)]
                       /\ ~ok_'
                 /\ length_ >= capacity_ => buffer_' = buffer_]_vars

\* C39, the case reached: gap(15) and addNote(784, 4) on a builder with one
\* free slot have left the 485 ms tone in the last slot, without its rest.
C39_OrphanToneReached ==
    /\ lastOp = "addNote"
    /\ ctx_ = [bpm |-> DefaultBpm, gapMs |-> 15]
    /\ length_ = capacity_
    /\ capacity_ = MaxCapacity
    /\ buffer_[length_ - 1] = Step(784, 485)
    /\ buffer_[length_ - 2].freqHz = 0
    /\ buffer_[length_ - 2].durationMs # 15
    /\ ~ok_

\* C40: the interval the timer is armed with for a step is durationMs * 1000
\* microseconds, without 32-bit wraparound, for every duration the builder
\* can store: the product has no bits above the 32 of unsigned long.
C40_IntervalWithoutWrap ==
    [][(lastOp' = "update" /\ state_ = "START_STEP" /\ StepReadDefined) =>
          LET ms == UL(buffer_[melodyStepIdx_].durationMs)
          IN  /\ stepDelay_'.delayTime = MulUL(ms, 1000)
              /\ OverflowUL(ms, 1000) = 0]_vars

\* C40 as the player behaves: the interval is durationMs * 1000 modulo 2^32;
\* it is the full product up to MaxExactMs, and for MaxExactMs + 1 it is
\* 704 us.
C40_IntervalModulo ==
    [][(lastOp' = "update" /\ state_ = "START_STEP" /\ StepReadDefined) =>
          LET ms == buffer_[melodyStepIdx_].durationMs
          IN  /\ stepDelay_'.delayTime = MulUL(UL(ms), 1000)
              /\ ms <= MaxExactMs <=> OverflowUL(UL(ms), 1000) = 0
              /\ ms = MaxExactMs + 1 => stepDelay_'.delayTime = UL(704)]_vars

\* C40, the case reached: a tone stored with MaxExactMs + 1 ms (71.6 min) is
\* over after one 50 ms advance of the clock: update() has found its timer
\* elapsed.
C40_StepCutShort ==
    /\ lastOp = "update"
    /\ state_ = "ADVANCE_STEP"
    /\ melodyStepIdx_ = 0
    /\ buffer_[0] = Step(440, MaxExactMs + 1)
    /\ ticks = 1

====
